---- MODULE Spec2Model ----
(***************************************************************************)
(* MovieApp: the Express server (credential service, token middleware and  *)
(* the ownership-checked collections / items / ratings routes) over its    *)
(* SQLite tables, and the client: its local SQLite store, the token it     *)
(* keeps, the rating sync and the recommendation selector over the         *)
(* external catalog.                                                       *)
(*                                                                         *)
(* Time is counted in days.  A JavaScript value is a record tagged by its  *)
(* type, a string is the sequence of its characters, an SQL row is a       *)
(* record of its columns.  A handler that awaits (register, at             *)
(* bcrypt.hash) is two actions with the suspended call held in `pending`.  *)
(***************************************************************************)
EXTENDS Integers, Sequences, FiniteSets, TLC

VARIABLES
    users,             \* table users
    collections,       \* table collections
    collection_items,  \* table collection_items
    ratings,           \* table ratings
    sqlite_sequence,   \* AUTOINCREMENT counters, one per table
    clock,             \* the server's time, in days
    issued,            \* the tokens the server has signed and sent out, by route
    pending,           \* register calls suspended at `await bcrypt.hash`
    res,               \* the last HTTP response: status and JSON body
    ctx,               \* where that response was produced: route, line, req.user, req.params
    local_ratings,           \* client store: table ratings
    local_collections,       \* client store: table collections
    local_collection_items,  \* client store: table collection_items
    local_sequence,          \* client store: AUTOINCREMENT counters
    secure_store,            \* SecureStore item 'auth_token'
    inserted,                \* the movies of the local ratings rows, in the order they were inserted
    calls,                   \* the client's async calls in progress, each at its await
    ret,                     \* how the last client call settled: resolved or rejected, and its value
    db,                      \* db.ts: the module's database handle, null until opened
    isInitialized,           \* db.ts: the module's flag that the tables were created
    opened,                  \* how many times SQLite.openDatabaseAsync gave a handle since the app started
    created,                 \* the database file has its tables
    detail,                  \* MovieDetailScreen: userRating, isSavingRating and the press awaited
    home                     \* ForYouScreen: isLoading, isRefreshing, error and the fetches awaited

tables == <<users, collections, collection_items, ratings, sqlite_sequence>>
server == <<users, collections, collection_items, ratings, sqlite_sequence,
            clock, issued, pending, res, ctx>>
local_tables == <<local_ratings, local_collections, local_collection_items, local_sequence>>
app == <<db, isInitialized, opened, created, detail, home>>
device == <<local_ratings, local_collections, local_collection_items, local_sequence,
            secure_store, inserted, calls, ret, db, isInitialized, opened, created,
            detail, home>>
vars == <<users, collections, collection_items, ratings, sqlite_sequence,
          clock, issued, pending, res, ctx,
          local_ratings, local_collections, local_collection_items, local_sequence,
          secure_store, inserted, calls, ret, db, isInitialized, opened, created,
          detail, home>>

(***************************************************************************)
(* Bounds of the model.                                                    *)
(***************************************************************************)
MaxUsers == 2        \* rows ever inserted into users
MaxInflight == 2     \* register calls suspended at the same time
MaxTicks == 1        \* times the clock advances by one token lifetime
MaxCollections == 2  \* rows ever inserted into collections
MaxItems == 2        \* rows ever inserted into collection_items
MaxRatings == 2      \* rows ever inserted into ratings
MaxCalls == 2        \* client calls in progress at the same time
MaxLocalCollections == 2  \* rows ever inserted into the local collections
MaxLocalItems == 2   \* rows ever inserted into the local collection_items

(***************************************************************************)
(* JavaScript values.                                                      *)
(***************************************************************************)
Undefined == [t |-> "undefined"]
Null == [t |-> "null"]
Str(s) == [t |-> "string", v |-> s]
Num(n) == [t |-> "number", v |-> n]

\* a check that lets every value through
Anything(v) == TRUE

\* !v is false
Truthy(v) ==
    /\ v.t \notin {"undefined", "null"}
    /\ v.t = "string" => v.v # <<>>
    /\ v.t = "number" => v.v # 0

\* a || null
OrNull(v) == IF Truthy(v) THEN v ELSE Null

LowerChar(c) ==
    CASE c = "A" -> "a"
      [] c = "B" -> "b"
      [] c = "X" -> "x"
      [] OTHER -> c

\* the email used as typed
AsTyped(s) == s

\* String.prototype.toLowerCase
toLowerCase(s) == [i \in DOMAIN s |-> LowerChar(s[i])]

\* a check that accepts every string
includesAlways(s, c) == TRUE

\* String.prototype.includes, for a one-character needle
includes(s, c) == \E i \in DOMAIN s : s[i] = c

\* the value better-sqlite3 binds to a `?`: numbers, strings and null as they
\* are, undefined as NULL
Bound(v) == IF v = Undefined THEN Null ELSE v

(***************************************************************************)
(* bcrypt and jsonwebtoken.                                                *)
(***************************************************************************)
SaltRounds == 10

bcryptHash(password) == [alg |-> "bcrypt", rounds |-> SaltRounds, of |-> password]

\* a comparison that accepts every password
bcryptCompareAlways(password, hash) == TRUE

bcryptCompare(password, hash) == hash.of = password

JWT_SECRET == "your-secret-key-change-in-production"

ExpiresInDays == 30

jwtSign(payload) ==
    [userId |-> payload.userId, email |-> payload.email,
     iat |-> clock, exp |-> clock + ExpiresInDays, sig |-> JWT_SECRET]

\* verification with ignoreExpiration
jwtVerifiesIgnoreExpiration(token) == token.sig = JWT_SECRET

\* jwt.verify calls back with an error for a bad signature or an expired token
jwtVerifies(token) == token.sig = JWT_SECRET /\ clock < token.exp

NoToken == [sig |-> "none"]
NoUser == [userId |-> 0]

(***************************************************************************)
(* Responses.                                                              *)
(***************************************************************************)
EmptyBody ==
    [error |-> "", success |-> FALSE, token |-> NoToken, user |-> NoUser,
     rows |-> {}, rating |-> Undefined, itemId |-> 0]

ErrorBody(msg) == [EmptyBody EXCEPT !.error = msg]

\* req.params: the ids of the path
Params(id, itemId) == [id |-> id, itemId |-> itemId]
NoParams == Params(0, 0)

\* the request being answered: the route, the line that answers, req.user,
\* req.params and the email of req.body
Request(op, line, reqUser, params, email) ==
    [op |-> op, line |-> line, user |-> reqUser, params |-> params, email |-> email]

\* res.status(status).json(body), at `line` of route `op`
Respond(op, line, reqUser, params, status, body) ==
    /\ res' = [status |-> status, body |-> body]
    /\ ctx' = Request(op, line, reqUser, params, Undefined)

\* res.status(status).json(body) of the login route, to a body with this email
RespondLogin(line, email, status, body) ==
    /\ res' = [status |-> status, body |-> body]
    /\ ctx' = Request("login", line, NoUser, NoParams, email)

\* the whole row, password hash included
WholeRow(u) == u

\* SELECT id, name, email, created_at FROM users
PublicUser(u) ==
    [id |-> u.id, name |-> u.name, email |-> u.email, created_at |-> u.created_at]

(***************************************************************************)
(* POST /api/auth/register                                                 *)
(***************************************************************************)
Idle == [op |-> "idle"]

InflightRegisters == Cardinality({s \in DOMAIN pending : pending[s] # Idle})

\* up to the await: validation, the existence check, then suspension
RegisterRequest(body) ==
    LET name == body.name
        email == body.email
        password == body.password
    IN  IF ~Truthy(name) \/ ~Truthy(email) \/ ~Truthy(password)
        THEN /\ Respond("register", 130, NoUser, NoParams, 400, ErrorBody("All fields are required"))
             /\ UNCHANGED <<tables, clock, issued, pending>>
        ELSE IF ~includes(email.v, "@")
        THEN /\ Respond("register", 134, NoUser, NoParams, 400, ErrorBody("Invalid email format"))
             /\ UNCHANGED <<tables, clock, issued, pending>>
        ELSE IF Len(password.v) < 6
        THEN /\ Respond("register", 138, NoUser, NoParams, 400,
                        ErrorBody("Password must be at least 6 characters"))
             /\ UNCHANGED <<tables, clock, issued, pending>>
        ELSE IF \E u \in users : u.email = Str(toLowerCase(email.v))
        THEN /\ Respond("register", 144, NoUser, NoParams, 400, ErrorBody("Email already registered"))
             /\ UNCHANGED <<tables, clock, issued, pending>>
        ELSE /\ Cardinality(users) + InflightRegisters < MaxUsers
             /\ \E s \in DOMAIN pending :
                    /\ pending[s] = Idle
                    /\ \A r \in DOMAIN pending : r < s => pending[r] # Idle
                    /\ pending' = [pending EXCEPT ![s] =
                           [op |-> "register", name |-> name, email |-> email,
                            password |-> password]]
             /\ UNCHANGED <<tables, clock, issued, res, ctx>>

\* after the await: the insert, the token, the response
RegisterResume(s) ==
    /\ pending[s] # Idle
    /\ pending' = [pending EXCEPT ![s] = Idle]
    /\ LET call == pending[s]
           passwordHash == bcryptHash(call.password.v)
           email == Str(toLowerCase(call.email.v))
           lastInsertRowid == sqlite_sequence.users + 1
           row == [id |-> lastInsertRowid, name |-> call.name, email |-> email,
                   password_hash |-> passwordHash, created_at |-> clock]
           token == jwtSign([userId |-> lastInsertRowid, email |-> email])
       IN  IF \E u \in users : u.email = email
           THEN \* UNIQUE(email) makes the INSERT throw; the catch answers
                /\ Respond("register", 169, NoUser, NoParams, 500, ErrorBody("Registration failed"))
                /\ UNCHANGED <<tables, clock, issued>>
           ELSE /\ users' = users \cup {row}
                /\ sqlite_sequence' = [sqlite_sequence EXCEPT !.users = lastInsertRowid]
                /\ issued' = issued \cup {[via |-> "register", token |-> token]}
                /\ Respond("register", 166, NoUser, NoParams, 201,
                           [EmptyBody EXCEPT !.success = TRUE, !.token = token,
                                             !.user = PublicUser(row)])
                /\ UNCHANGED <<collections, collection_items, ratings, clock>>

(***************************************************************************)
(* POST /api/auth/login                                                    *)
(***************************************************************************)
Login(body) ==
    LET email == body.email
        password == body.password
        found == IF Truthy(email)
                 THEN {u \in users : u.email = Str(toLowerCase(email.v))}
                 ELSE {}
    IN  /\ UNCHANGED <<tables, clock, pending>>
        /\ IF ~Truthy(email) \/ ~Truthy(password)
           THEN /\ RespondLogin(179, email, 400,
                           ErrorBody("Email and password are required"))
                /\ UNCHANGED issued
           ELSE IF found = {}
           THEN /\ RespondLogin(185, email, 401, ErrorBody("Invalid email or password"))
                /\ UNCHANGED issued
           ELSE LET user == CHOOSE u \in found : TRUE
                    token == jwtSign([userId |-> user.id, email |-> user.email])
                IN  IF ~bcryptCompare(password.v, user.password_hash)
                    THEN /\ RespondLogin(191, email, 401,
                                    ErrorBody("Invalid email or password"))
                         /\ UNCHANGED issued
                    ELSE /\ issued' = issued \cup {[via |-> "login", token |-> token]}
                         /\ RespondLogin(201, email, 200,
                                    [EmptyBody EXCEPT !.success = TRUE, !.token = token,
                                                      !.user = PublicUser(user)])

(***************************************************************************)
(* authenticateToken, and the routes behind it                             *)
(***************************************************************************)
\* authHeader && authHeader.split(' ')[1], the header given as its parts
BearerToken(authHeader) == IF Len(authHeader) >= 2 THEN authHeader[2] ELSE NoToken

Decoded(token) ==
    [userId |-> token.userId, email |-> token.email, iat |-> token.iat, exp |-> token.exp]

\* the middleware: whether next() is called, with req.user, or what it answers
authenticateToken(authHeader) ==
    LET token == BearerToken(authHeader)
    IN  IF token = NoToken
        THEN [next |-> FALSE, line |-> 110, status |-> 401,
              error |-> "Access token required", user |-> NoUser]
        ELSE IF ~jwtVerifies(token)
        THEN [next |-> FALSE, line |-> 115, status |-> 403,
              error |-> "Invalid or expired token", user |-> NoUser]
        ELSE [next |-> TRUE, line |-> 118, status |-> 0, error |-> "",
              user |-> Decoded(token)]

\* the middleware's own answer; the route handler is not called
Reject(op, params, auth) ==
    /\ Respond(op, auth.line, NoUser, params, auth.status, ErrorBody(auth.error))
    /\ UNCHANGED <<tables, clock, issued, pending>>

\* the user lookup without its WHERE id = ?
MeHandlerAnyUser(reqUser) ==
    /\ UNCHANGED <<tables, clock, issued, pending>>
    /\ IF users = {}
       THEN Respond("me", 224, reqUser, NoParams, 404, ErrorBody("User not found"))
       ELSE Respond("me", 227, reqUser, NoParams, 200,
                    [EmptyBody EXCEPT
                        !.user = PublicUser(CHOOSE u \in users :
                                               \A w \in users : u.id <= w.id)])

\* GET /api/auth/me
MeHandler(reqUser) ==
    LET found == {u \in users : u.id = reqUser.userId}
    IN  /\ UNCHANGED <<tables, clock, issued, pending>>
        /\ IF found = {}
           THEN Respond("me", 224, reqUser, NoParams, 404, ErrorBody("User not found"))
           ELSE Respond("me", 227, reqUser, NoParams, 200,
                        [EmptyBody EXCEPT !.user = PublicUser(CHOOSE u \in found : TRUE)])

Me(authHeader) ==
    LET auth == authenticateToken(authHeader)
    IN  IF auth.next THEN MeHandler(auth.user) ELSE Reject("me", NoParams, auth)

(***************************************************************************)
(* Collections routes                                                      *)
(***************************************************************************)
\* the ownership check without its user_id filter
OwnedCollectionAnyOwner(id, userId) == {c \in collections : c.id = id}

\* SELECT * FROM collections WHERE id = ? AND user_id = ?
OwnedCollection(id, userId) == {c \in collections : c.id = id /\ c.user_id = userId}

\* GET /api/collections
GetCollectionsHandler(reqUser) ==
    /\ UNCHANGED <<tables, clock, issued, pending>>
    /\ Respond("getCollections", 243, reqUser, NoParams, 200,
               [EmptyBody EXCEPT !.rows = {c \in collections : c.user_id = reqUser.userId}])

GetCollections(authHeader) ==
    LET auth == authenticateToken(authHeader)
    IN  IF auth.next THEN GetCollectionsHandler(auth.user) ELSE Reject("getCollections", NoParams, auth)

\* POST /api/collections
CreateCollection(authHeader, body) ==
    LET Handler(reqUser) ==
            LET name == body.name
                lastInsertRowid == sqlite_sequence.collections + 1
                row == [id |-> lastInsertRowid, user_id |-> reqUser.userId,
                        name |-> name, created_at |-> clock]
            IN  IF ~Truthy(name)
                THEN /\ Respond("createCollection", 256, reqUser, NoParams, 400,
                                ErrorBody("Collection name is required"))
                     /\ UNCHANGED <<tables, clock, issued, pending>>
                ELSE IF ~\E u \in users : u.id = reqUser.userId
                THEN \* FOREIGN KEY (user_id) fails; the catch answers
                     /\ Respond("createCollection", 269, reqUser, NoParams, 500,
                                ErrorBody("Failed to create collection"))
                     /\ UNCHANGED <<tables, clock, issued, pending>>
                ELSE /\ sqlite_sequence.collections < MaxCollections
                     /\ collections' = collections \cup {row}
                     /\ sqlite_sequence' =
                            [sqlite_sequence EXCEPT !.collections = lastInsertRowid]
                     /\ Respond("createCollection", 266, reqUser, NoParams, 201,
                                [EmptyBody EXCEPT !.success = TRUE, !.rows = {row}])
                     /\ UNCHANGED <<users, collection_items, ratings, clock, issued, pending>>
    IN  LET auth == authenticateToken(authHeader)
        IN  IF auth.next THEN Handler(auth.user) ELSE Reject("createCollection", NoParams, auth)

\* DELETE /api/collections/:id
DeleteCollection(authHeader, id) ==
    LET Handler(reqUser) ==
            IF OwnedCollection(id, reqUser.userId) = {}
            THEN /\ Respond("deleteCollection", 284, reqUser, Params(id, 0), 404,
                            ErrorBody("Collection not found"))
                 /\ UNCHANGED <<tables, clock, issued, pending>>
            ELSE \* DELETE FROM collections WHERE id = ?, with ON DELETE CASCADE
                 /\ collections' = {c \in collections : c.id # id}
                 /\ collection_items' = {i \in collection_items : i.collection_id # id}
                 /\ Respond("deleteCollection", 289, reqUser, Params(id, 0), 200,
                            [EmptyBody EXCEPT !.success = TRUE])
                 /\ UNCHANGED <<users, ratings, sqlite_sequence, clock, issued, pending>>
    IN  LET auth == authenticateToken(authHeader)
        IN  IF auth.next THEN Handler(auth.user) ELSE Reject("deleteCollection", Params(id, 0), auth)

\* GET /api/collections/:id/items
GetItems(authHeader, id) ==
    LET Handler(reqUser) ==
            /\ UNCHANGED <<tables, clock, issued, pending>>
            /\ IF OwnedCollection(id, reqUser.userId) = {}
               THEN Respond("getItems", 307, reqUser, Params(id, 0), 404, ErrorBody("Collection not found"))
               ELSE Respond("getItems", 314, reqUser, Params(id, 0), 200,
                            [EmptyBody EXCEPT
                                !.rows = {i \in collection_items : i.collection_id = id}])
    IN  LET auth == authenticateToken(authHeader)
        IN  IF auth.next THEN Handler(auth.user) ELSE Reject("getItems", Params(id, 0), auth)

\* POST /api/collections/:id/items
AddItem(authHeader, id, body) ==
    LET Handler(reqUser) ==
            LET tmdb_id == body.tmdb_id
                title == body.title
                poster_path == body.poster_path
                existing == {i \in collection_items :
                                i.collection_id = id /\ i.tmdb_id = tmdb_id}
                lastInsertRowid == sqlite_sequence.collection_items + 1
                row == [id |-> lastInsertRowid, collection_id |-> id, tmdb_id |-> tmdb_id,
                        title |-> title, poster_path |-> Bound(poster_path)]
            IN  IF OwnedCollection(id, reqUser.userId) = {}
                THEN /\ Respond("addItem", 333, reqUser, Params(id, 0), 404,
                                ErrorBody("Collection not found"))
                     /\ UNCHANGED <<tables, clock, issued, pending>>
                ELSE IF existing # {}
                THEN /\ Respond("addItem", 342, reqUser, Params(id, 0), 400,
                                ErrorBody("Movie already in collection"))
                     /\ UNCHANGED <<tables, clock, issued, pending>>
                ELSE IF Bound(tmdb_id) = Null \/ Bound(title) = Null
                THEN \* NULL breaks NOT NULL; the catch answers
                     /\ Respond("addItem", 352, reqUser, Params(id, 0), 500,
                                ErrorBody("Failed to add movie to collection"))
                     /\ UNCHANGED <<tables, clock, issued, pending>>
                ELSE /\ sqlite_sequence.collection_items < MaxItems
                     /\ collection_items' = collection_items \cup {row}
                     /\ sqlite_sequence' =
                            [sqlite_sequence EXCEPT !.collection_items = lastInsertRowid]
                     /\ Respond("addItem", 349, reqUser, Params(id, 0), 201,
                                [EmptyBody EXCEPT !.success = TRUE,
                                                  !.itemId = lastInsertRowid])
                     /\ UNCHANGED <<users, collections, ratings, clock, issued, pending>>
    IN  LET auth == authenticateToken(authHeader)
        IN  IF auth.next THEN Handler(auth.user) ELSE Reject("addItem", Params(id, 0), auth)

\* the item delete without its collection_id filter
DeleteItemAnyCollection(authHeader, collectionId, itemId) ==
    LET Handler(reqUser) ==
            IF OwnedCollection(collectionId, reqUser.userId) = {}
            THEN /\ Respond("deleteItem", 367, reqUser, Params(collectionId, itemId), 404,
                            ErrorBody("Collection not found"))
                 /\ UNCHANGED <<tables, clock, issued, pending>>
            ELSE /\ collection_items' = {i \in collection_items : i.id # itemId}
                 /\ Respond("deleteItem", 373, reqUser, Params(collectionId, itemId), 200,
                            [EmptyBody EXCEPT !.success = TRUE])
                 /\ UNCHANGED <<users, collections, ratings, sqlite_sequence,
                                clock, issued, pending>>
    IN  LET auth == authenticateToken(authHeader)
        IN  IF auth.next THEN Handler(auth.user) ELSE Reject("deleteItem", Params(collectionId, itemId), auth)

\* DELETE /api/collections/:collectionId/items/:itemId
DeleteItem(authHeader, collectionId, itemId) ==
    LET Handler(reqUser) ==
            IF OwnedCollection(collectionId, reqUser.userId) = {}
            THEN /\ Respond("deleteItem", 367, reqUser, Params(collectionId, itemId), 404,
                            ErrorBody("Collection not found"))
                 /\ UNCHANGED <<tables, clock, issued, pending>>
            ELSE /\ collection_items' =
                        {i \in collection_items :
                            ~(i.id = itemId /\ i.collection_id = collectionId)}
                 /\ Respond("deleteItem", 373, reqUser, Params(collectionId, itemId), 200,
                            [EmptyBody EXCEPT !.success = TRUE])
                 /\ UNCHANGED <<users, collections, ratings, sqlite_sequence,
                                clock, issued, pending>>
    IN  LET auth == authenticateToken(authHeader)
        IN  IF auth.next THEN Handler(auth.user) ELSE Reject("deleteItem", Params(collectionId, itemId), auth)

(***************************************************************************)
(* Ratings routes                                                          *)
(***************************************************************************)
\* GET /api/ratings
GetRatingsHandler(reqUser) ==
    /\ UNCHANGED <<tables, clock, issued, pending>>
    /\ Respond("getRatings", 389, reqUser, NoParams, 200,
               [EmptyBody EXCEPT !.rows = {r \in ratings : r.user_id = reqUser.userId}])

GetRatings(authHeader) ==
    LET auth == authenticateToken(authHeader)
    IN  IF auth.next THEN GetRatingsHandler(auth.user) ELSE Reject("getRatings", NoParams, auth)

\* the column set to the parameter, NULL or not
CoalesceOverwriting(v, column) == v

\* COALESCE(?, column)
Coalesce(v, column) == IF v = Null THEN column ELSE v

\* POST /api/ratings
SaveRating(authHeader, body) ==
    LET Handler(reqUser) ==
            LET tmdb_id == body.tmdb_id
                rating == body.rating
                review == body.review
                title == body.title
                poster_path == body.poster_path
                existing == {r \in ratings :
                                r.user_id = reqUser.userId /\ r.tmdb_id = tmdb_id}
                lastInsertRowid == sqlite_sequence.ratings + 1
                row == [id |-> lastInsertRowid, user_id |-> reqUser.userId,
                        tmdb_id |-> tmdb_id, rating |-> rating, review |-> OrNull(review),
                        title |-> OrNull(title), poster_path |-> OrNull(poster_path),
                        created_at |-> clock]
                Updated(r) == [r EXCEPT !.rating = rating, !.review = OrNull(review),
                                        !.title = Coalesce(Bound(title), r.title),
                                        !.poster_path =
                                            Coalesce(Bound(poster_path), r.poster_path)]
            IN  IF ~Truthy(tmdb_id) \/ rating = Undefined
                THEN /\ Respond("saveRating", 402, reqUser, NoParams, 400,
                                ErrorBody("Movie ID and rating are required"))
                     /\ UNCHANGED <<tables, clock, issued, pending>>
                ELSE IF existing # {}
                THEN IF rating = Null
                     THEN \* NULL breaks NOT NULL; the catch answers
                          /\ Respond("saveRating", 428, reqUser, NoParams, 500,
                                     ErrorBody("Failed to save rating"))
                          /\ UNCHANGED <<tables, clock, issued, pending>>
                     ELSE /\ ratings' = (ratings \ existing) \cup
                                            {Updated(r) : r \in existing}
                          /\ Respond("saveRating", 425, reqUser, NoParams, 200,
                                     [EmptyBody EXCEPT !.success = TRUE])
                          /\ UNCHANGED <<users, collections, collection_items,
                                         sqlite_sequence, clock, issued, pending>>
                ELSE IF rating = Null \/ ~\E u \in users : u.id = reqUser.userId
                THEN \* NULL breaks NOT NULL, a missing user the FOREIGN KEY
                     /\ Respond("saveRating", 428, reqUser, NoParams, 500,
                                ErrorBody("Failed to save rating"))
                     /\ UNCHANGED <<tables, clock, issued, pending>>
                ELSE /\ sqlite_sequence.ratings < MaxRatings
                     /\ ratings' = ratings \cup {row}
                     /\ sqlite_sequence' =
                            [sqlite_sequence EXCEPT !.ratings = lastInsertRowid]
                     /\ Respond("saveRating", 425, reqUser, NoParams, 200,
                                [EmptyBody EXCEPT !.success = TRUE])
                     /\ UNCHANGED <<users, collections, collection_items,
                                    clock, issued, pending>>
    IN  LET auth == authenticateToken(authHeader)
        IN  IF auth.next THEN Handler(auth.user) ELSE Reject("saveRating", NoParams, auth)

\* the rating lookup without its user_id filter
GetRatingAnyUser(authHeader, tmdbId) ==
    LET Handler(reqUser) ==
            /\ UNCHANGED <<tables, clock, issued, pending>>
            /\ LET found == {r \in ratings : r.tmdb_id = Num(tmdbId)}
                   rating == IF found = {} THEN Undefined ELSE CHOOSE r \in found : TRUE
               IN  Respond("getRating", 441, reqUser, Params(tmdbId, 0), 200,
                           [EmptyBody EXCEPT
                               !.rating = IF rating = Undefined THEN Null ELSE rating])
    IN  LET auth == authenticateToken(authHeader)
        IN  IF auth.next THEN Handler(auth.user) ELSE Reject("getRating", Params(tmdbId, 0), auth)

\* GET /api/ratings/:tmdbId
GetRating(authHeader, tmdbId) ==
    LET Handler(reqUser) ==
            /\ UNCHANGED <<tables, clock, issued, pending>>
            /\ LET found == {r \in ratings : r.user_id = reqUser.userId
                                                /\ r.tmdb_id = Num(tmdbId)}
                   rating == IF found = {} THEN Undefined ELSE CHOOSE r \in found : TRUE
               IN  Respond("getRating", 441, reqUser, Params(tmdbId, 0), 200,
                           [EmptyBody EXCEPT
                               !.rating = IF rating = Undefined THEN Null ELSE rating])
    IN  LET auth == authenticateToken(authHeader)
        IN  IF auth.next THEN Handler(auth.user) ELSE Reject("getRating", Params(tmdbId, 0), auth)

(***************************************************************************)
(* The environment: inputs and time.                                       *)
(***************************************************************************)
AName == Str(<<"n">>)
APassword == Str(<<"p", "w", "1", "2", "3", "4">>)
AnotherPassword == Str(<<"q", "w", "e", "r", "t", "y">>)
AShortPassword == Str(<<"p", "w", "1", "2", "3">>)

\* two addresses, one of them also typed in upper case
Addresses == {Str(<<"a", "@", "x">>), Str(<<"A", "@", "X">>), Str(<<"b", "@", "x">>)}

\* well-formed bodies, and one body for each way of being malformed
RegisterBodies ==
    {[name |-> AName, email |-> e, password |-> APassword] : e \in Addresses}
    \cup {[name |-> Undefined, email |-> Str(<<"a", "@", "x">>), password |-> APassword],
          [name |-> AName, email |-> Undefined, password |-> APassword],
          [name |-> AName, email |-> Str(<<>>), password |-> APassword],
          [name |-> AName, email |-> Str(<<"a", "x">>), password |-> APassword],
          [name |-> AName, email |-> Str(<<"a", "@", "x">>), password |-> Undefined],
          [name |-> AName, email |-> Str(<<"a", "@", "x">>), password |-> AShortPassword]}

LoginBodies ==
    [email : Addresses \cup {Undefined}, password : {Undefined, APassword, AnotherPassword}]

\* a token for user 1 signed with another key
Forged ==
    {[userId |-> 1, email |-> Str(<<"a", "@", "x">>), iat |-> clock,
      exp |-> clock + ExpiresInDays, sig |-> "another-key"]}

IssuedTokens == {i.token : i \in issued}

AuthHeaders == {<<>>, <<"Bearer">>} \cup {<<"Bearer", t>> : t \in IssuedTokens \cup Forged}

\* one token lifetime passes
Tick ==
    /\ clock < MaxTicks * ExpiresInDays
    /\ clock' = clock + ExpiresInDays
    /\ UNCHANGED <<tables, issued, pending, res, ctx>>
    /\ UNCHANGED device

\* no client call
\* MovieDetailScreen before it is mounted: the useState initial values, no
\* movie shown, no star pressed and no saveRating awaited
NotMounted ==
    [tmdbId |-> 0, userRating |-> 0, isSavingRating |-> FALSE, star |-> 0,
     saveRating |-> "none"]

\* the functions fetchAllData awaits together
HomeFunctions == {"getTrendingMovies", "getRecommendations", "getNowPlayingMovies"}

NotFetching == [fn \in HomeFunctions |-> "none"]

\* ForYouScreen before its first fetch: the useState initial values, and
\* no promise awaited
NotLoaded ==
    [isLoading |-> TRUE, isRefreshing |-> FALSE, error |-> Null, awaited |-> NotFetching]

NoCall == [fn |-> "none"]

Init ==
    /\ users = {}
    /\ collections = {}
    /\ collection_items = {}
    /\ ratings = {}
    /\ sqlite_sequence = [users |-> 0, collections |-> 0, collection_items |-> 0, ratings |-> 0]
    /\ clock = 0
    /\ issued = {}
    /\ pending = [s \in 1..MaxInflight |-> Idle]
    /\ res = [status |-> 0, body |-> EmptyBody]
    /\ ctx = Request("listen", 449, NoUser, NoParams, Undefined)
    /\ local_ratings = {}
    /\ local_collections = {}
    /\ local_collection_items = {}
    /\ local_sequence = [collections |-> 0, collection_items |-> 0]
    /\ secure_store = NoToken
    /\ inserted = <<>>
    /\ calls = [s \in 1..MaxCalls |-> NoCall]
    /\ ret = [fn |-> "none", outcome |-> "none", value |-> Undefined]
    /\ db = Null
    /\ isInitialized = FALSE
    /\ opened = 0
    /\ created = FALSE
    /\ detail = NotMounted
    /\ home = NotLoaded

\* path parameters: the ids a table can hand out, issued yet or not
CollectionIds == 1..MaxCollections
ItemIds == 1..MaxItems
MovieIds == {1, 2}
RatedMovieIds == {1}

\* the two accounts of the resource specification
ApiRegisterBodies ==
    {[name |-> AName, email |-> Str(e), password |-> APassword] :
        e \in {<<"a", "@", "x">>, <<"b", "@", "x">>}}

CollectionBodies == {[name |-> Undefined], [name |-> Str(<<"c">>)]}

ItemBodies ==
    {[tmdb_id |-> Num(m), title |-> Str(<<"t">>), poster_path |-> Null] : m \in MovieIds}
    \cup {[tmdb_id |-> Num(1), title |-> Undefined, poster_path |-> Undefined]}

RatingBodies ==
    {[tmdb_id |-> Num(1), rating |-> Num(3), review |-> Undefined,
      title |-> Str(<<"t">>), poster_path |-> Null],
     [tmdb_id |-> Num(1), rating |-> Undefined, review |-> Undefined,
      title |-> Str(<<"t">>), poster_path |-> Null],
     [tmdb_id |-> Num(1), rating |-> Num(5), review |-> Str(<<"r">>),
      title |-> Str(<<"t">>), poster_path |-> Null],
     [tmdb_id |-> Undefined, rating |-> Num(3), review |-> Undefined,
      title |-> Str(<<"t">>), poster_path |-> Null]}

DoRegisterRequest == (\E body \in RegisterBodies : RegisterRequest(body)) /\ UNCHANGED device
DoRegisterResume == (\E s \in DOMAIN pending : RegisterResume(s)) /\ UNCHANGED device
DoLogin == (\E body \in LoginBodies : Login(body)) /\ UNCHANGED device
DoMe == (\E h \in AuthHeaders : Me(h)) /\ UNCHANGED device

\* the requests of the resource specification carry a token the server issued
Bearers == {<<"Bearer", t>> : t \in IssuedTokens}

DoGetCollections == (\E h \in Bearers : GetCollections(h)) /\ UNCHANGED device
DoCreateCollection == (\E h \in Bearers, body \in CollectionBodies : CreateCollection(h, body)) /\ UNCHANGED device
DoDeleteCollection == (\E h \in Bearers, id \in CollectionIds : DeleteCollection(h, id)) /\ UNCHANGED device
DoGetItems == (\E h \in Bearers, id \in CollectionIds : GetItems(h, id)) /\ UNCHANGED device
DoAddItem == (\E h \in Bearers, id \in CollectionIds, body \in ItemBodies : AddItem(h, id, body)) /\ UNCHANGED device
DoDeleteItem ==
    /\ \E h \in Bearers, id \in CollectionIds, itemId \in ItemIds : DeleteItem(h, id, itemId)
    /\ UNCHANGED device
DoGetRatings == (\E h \in Bearers : GetRatings(h)) /\ UNCHANGED device
DoSaveRating == (\E h \in Bearers, body \in RatingBodies : SaveRating(h, body)) /\ UNCHANGED device
DoGetRating == (\E h \in Bearers, tmdbId \in RatedMovieIds : GetRating(h, tmdbId)) /\ UNCHANGED device

DoApiRegisterRequest == (\E body \in ApiRegisterBodies : RegisterRequest(body)) /\ UNCHANGED device

\* the resource API, with two accounts registering
Next ==
    \/ DoApiRegisterRequest
    \/ DoRegisterResume
    \/ DoGetCollections
    \/ DoCreateCollection
    \/ DoDeleteCollection
    \/ DoGetItems
    \/ DoAddItem
    \/ DoDeleteItem
    \/ DoGetRatings
    \/ DoSaveRating
    \/ DoGetRating

Spec == Init /\ [][Next]_vars

\* the credential service
DoGetCollectionsAnyHeader ==
    (\E h \in AuthHeaders : GetCollections(h)) /\ UNCHANGED device

NextAuth ==
    \/ DoRegisterRequest
    \/ DoRegisterResume
    \/ DoLogin
    \/ DoMe
    \/ DoGetCollectionsAnyHeader
    \/ Tick

SpecAuth == Init /\ [][NextAuth]_vars

(***************************************************************************)
(* The client: AuthService.ts and the local store of db.ts.  An async      *)
(* function of the client is a call in `calls`, one action per await.      *)
(***************************************************************************)
Slots == 1..MaxCalls

\* the screens await a store call before the next one can be started
NoCalls == \A s \in Slots : calls[s] = NoCall

\* the promise of a client call settles
Settle(fn, outcome, value) == ret' = [fn |-> fn, outcome |-> outcome, value |-> value]

\* the call in slot s ends
Return(s) == calls' = [calls EXCEPT ![s] = NoCall]

\* AuthService.getToken: the stored token, null when SecureStore fails
getToken(stored) == IF stored THEN secure_store ELSE NoToken

\* AuthService.login: the server's answer decides; the token of a 200 is kept
login(email, password) ==
    /\ NoCalls
    /\ UNCHANGED <<local_tables, inserted, calls>>
    /\ \/ /\ Login([email |-> email, password |-> password])
          /\ IF res'.status # 200
             THEN /\ UNCHANGED secure_store
                  /\ Settle("login", "resolved",
                            [success |-> FALSE, error |-> res'.body.error])
             ELSE \/ /\ secure_store' = res'.body.token
                     /\ Settle("login", "resolved", [success |-> TRUE, error |-> ""])
                  \/ \* SecureStore.setItemAsync rejects
                     /\ UNCHANGED secure_store
                     /\ Settle("login", "resolved",
                               [success |-> FALSE,
                                error |-> "Network error. Is the server running?"])
       \/ \* fetch rejects
          /\ UNCHANGED <<server, secure_store>>
          /\ Settle("login", "resolved",
                    [success |-> FALSE, error |-> "Network error. Is the server running?"])

\* response.ok
Ok(status) == status \in 200..299

NetworkError == [success |-> FALSE, error |-> "Network error. Is the server running?"]

\* AuthService.register is called: fetch rejects, or the server answers at
\* once (validation), or it suspends the request at bcrypt.hash
register(name, email, password) ==
    /\ NoCalls
    /\ UNCHANGED <<local_tables, inserted, secure_store>>
    /\ \/ /\ UNCHANGED <<server, calls>>
          /\ Settle("register", "resolved", NetworkError)
       \/ /\ RegisterRequest([name |-> name, email |-> email, password |-> password])
          /\ IF pending' = pending
             THEN /\ UNCHANGED calls
                  /\ Settle("register", "resolved",
                            [success |-> FALSE, error |-> res'.body.error])
             ELSE /\ calls' = [calls EXCEPT ![1] = [fn |-> "register", pc |-> "fetch"]]
                  /\ UNCHANGED ret

\* the server resumes the request and answers; the token of a 201 is kept
registerResponse(s) ==
    /\ calls[s].fn = "register" /\ calls[s].pc = "fetch"
    /\ UNCHANGED <<local_tables, inserted>>
    /\ Return(s)
    /\ \E p \in DOMAIN pending : RegisterResume(p)
    /\ IF ~Ok(res'.status)
       THEN /\ UNCHANGED secure_store
            /\ Settle("register", "resolved", [success |-> FALSE, error |-> res'.body.error])
       ELSE \/ /\ secure_store' = res'.body.token
               /\ Settle("register", "resolved", [success |-> TRUE, error |-> ""])
            \/ \* the answer is lost, or SecureStore.setItemAsync rejects
               /\ UNCHANGED secure_store
               /\ Settle("register", "resolved", NetworkError)

\* getCurrentUser that deletes the token whenever it has no user to return
getCurrentUserForgetting(stored) ==
    LET token == getToken(stored)
    IN  /\ NoCalls
        /\ UNCHANGED <<local_tables, inserted, calls>>
        /\ IF token = NoToken
           THEN /\ UNCHANGED <<server, secure_store>>
                /\ Settle("getCurrentUser", "resolved", Null)
           ELSE \/ /\ UNCHANGED server
                   /\ secure_store' = NoToken
                   /\ Settle("getCurrentUser", "resolved", Null)
                \/ /\ Me(<<"Bearer", token>>)
                   /\ IF Ok(res'.status)
                      THEN /\ UNCHANGED secure_store
                           /\ Settle("getCurrentUser", "resolved", res'.body.user)
                      ELSE /\ secure_store' = NoToken
                           /\ Settle("getCurrentUser", "resolved", Null)

\* AuthService.getCurrentUser: no request without a token; a 401 or 403
\* deletes the token; every failure gives null
getCurrentUser(stored) ==
    LET token == getToken(stored)
    IN  /\ NoCalls
        /\ UNCHANGED <<local_tables, inserted, calls>>
        /\ IF token = NoToken
           THEN /\ UNCHANGED <<server, secure_store>>
                /\ Settle("getCurrentUser", "resolved", Null)
           ELSE \/ \* fetch rejects
                   /\ UNCHANGED <<server, secure_store>>
                   /\ Settle("getCurrentUser", "resolved", Null)
                \/ /\ Me(<<"Bearer", token>>)
                   /\ IF Ok(res'.status)
                      THEN /\ UNCHANGED secure_store
                           /\ Settle("getCurrentUser", "resolved", res'.body.user)
                      ELSE /\ Settle("getCurrentUser", "resolved", Null)
                           /\ IF res'.status \in {401, 403}
                              THEN \/ secure_store' = NoToken
                                   \/ \* SecureStore.deleteItemAsync rejects
                                      UNCHANGED secure_store
                              ELSE UNCHANGED secure_store

\* AuthService.logout
logout ==
    /\ NoCalls
    /\ UNCHANGED <<server, local_tables, inserted, calls>>
    /\ \/ secure_store' = NoToken
       \/ \* SecureStore.deleteItemAsync rejects: logged
          UNCHANGED secure_store
    /\ Settle("logout", "resolved", Undefined)

\* INSERT OR IGNORE: the row of a rated movie stays as it is
UpsertIgnoring(tmdbId, rating, review) ==
    LET conflict == {r \in local_ratings : r.tmdb_id = tmdbId}
    IN  IF conflict = {}
        THEN {[tmdb_id |-> tmdbId, user_id |-> Null, rating |-> rating, review |-> review]}
        ELSE conflict

\* INSERT INTO ratings ... ON CONFLICT(tmdb_id) DO UPDATE SET rating, review
Upsert(tmdbId, rating, review) ==
    LET conflict == {r \in local_ratings : r.tmdb_id = tmdbId}
    IN  IF conflict = {}
        THEN {[tmdb_id |-> tmdbId, user_id |-> Null, rating |-> rating, review |-> review]}
        ELSE {[r EXCEPT !.rating = rating, !.review = review] : r \in conflict}

\* a request that carries the local row of the least movie id, not the call's
RatingRequestOfFirstRow(c) ==
    LET first == CHOOSE r \in local_ratings :
                     \A q \in local_ratings : r.tmdb_id.v <= q.tmdb_id.v
    IN  [tmdb_id |-> first.tmdb_id, rating |-> first.rating, review |-> first.review,
         title |-> c.title, poster_path |-> c.posterPath]

\* JSON.stringify drops the members that are undefined, and the server reads
\* a member that is not there as undefined
RatingRequest(c) ==
    [tmdb_id |-> c.tmdbId, rating |-> c.rating, review |-> c.review,
     title |-> c.title, poster_path |-> c.posterPath]

\* db.saveRating is called, whatever else is in progress; getDatabase
\* resolves or rejects
saveRatingAt(s, tmdbId, rating, review, title, posterPath) ==
    /\ calls[s] = NoCall
    /\ UNCHANGED <<server, local_tables, secure_store, inserted>>
    /\ \/ /\ calls' = [calls EXCEPT ![s] =
                          [fn |-> "saveRating", pc |-> "runAsync", tmdbId |-> tmdbId,
                           rating |-> rating, review |-> review, title |-> title,
                           posterPath |-> posterPath, token |-> NoToken]]
          /\ UNCHANGED ret
       \/ /\ UNCHANGED calls
          /\ Settle("saveRating", "rejected", Str(<<"getDatabase">>))

\* the same called while no other call is in progress
saveRating(tmdbId, rating, review, title, posterPath) ==
    NoCalls /\ saveRatingAt(1, tmdbId, rating, review, title, posterPath)

\* line 291: the local write; a failure is thrown again by the outer catch
saveRatingLocal(s) ==
    LET c == calls[s]
    IN  /\ c.fn = "saveRating" /\ c.pc = "runAsync"
        /\ UNCHANGED <<server, local_collections, local_collection_items,
                       local_sequence, secure_store>>
        /\ \/ /\ local_ratings' =
                     {r \in local_ratings : r.tmdb_id # c.tmdbId}
                         \cup Upsert(c.tmdbId, c.rating, c.review)
              /\ inserted' = IF \E r \in local_ratings : r.tmdb_id = c.tmdbId
                             THEN inserted ELSE Append(inserted, c.tmdbId)
              /\ calls' = [calls EXCEPT ![s].pc = "getToken"]
              /\ UNCHANGED ret
           \/ /\ UNCHANGED <<local_ratings, inserted>>
              /\ Return(s)
              /\ Settle("saveRating", "rejected", Str(<<"runAsync">>))

\* line 299: the token is read; without one the call is over
saveRatingToken(s) ==
    LET c == calls[s]
    IN  /\ c.fn = "saveRating" /\ c.pc = "getToken"
        /\ UNCHANGED <<server, local_tables, secure_store, inserted>>
        /\ \E stored \in BOOLEAN :
              LET token == getToken(stored)
              IN  IF token # NoToken
                  THEN /\ calls' = [calls EXCEPT ![s].pc = "fetch", ![s].token = token]
                       /\ UNCHANGED ret
                  ELSE /\ Return(s)
                       /\ Settle("saveRating", "resolved", Undefined)

\* saveRating without the inner try: a fetch that rejects rejects the call
saveRatingFetchPropagating(s) ==
    LET c == calls[s]
    IN  /\ c.fn = "saveRating" /\ c.pc = "fetch"
        /\ UNCHANGED <<local_tables, secure_store, inserted>>
        /\ Return(s)
        /\ \/ /\ SaveRating(<<"Bearer", c.token>>, RatingRequest(c))
              /\ Settle("saveRating", "resolved", Undefined)
           \/ /\ UNCHANGED server
              /\ Settle("saveRating", "rejected", Str(<<"fetch">>))

\* line 301: the request reaches the server, whose answer is not read, or
\* fetch rejects, which is logged
saveRatingFetch(s) ==
    LET c == calls[s]
    IN  /\ c.fn = "saveRating" /\ c.pc = "fetch"
        /\ UNCHANGED <<local_tables, secure_store, inserted>>
        /\ \/ SaveRating(<<"Bearer", c.token>>, RatingRequest(c))
           \/ UNCHANGED server
        /\ Return(s)
        /\ Settle("saveRating", "resolved", Undefined)

\* db.getRating: the row or null, null too when the query fails
getRating(tmdbId, answers) ==
    LET rating == {r \in local_ratings : r.tmdb_id = tmdbId}
    IN  IF answers /\ rating # {} THEN CHOOSE r \in rating : TRUE ELSE Null

\* ratings.tmdb_id is INTEGER PRIMARY KEY, which makes it the rowid
rowid(r) == r.tmdb_id.v

\* the first row of ORDER BY rowid DESC
LastByRowid(rows) == CHOOSE r \in rows : \A q \in rows : rowid(q) <= rowid(r)

\* the rating from which a movie counts as liked
HighRating == 4

\* the same query without its WHERE clause
getLastHighRatedMovieAny(answers) ==
    IF answers /\ local_ratings # {} THEN LastByRowid(local_ratings).tmdb_id ELSE Null

\* db.getLastHighRatedMovie: SELECT tmdb_id FROM ratings WHERE rating >= 4
\* ORDER BY rowid DESC LIMIT 1, null when no row or when the query fails
getLastHighRatedMovie(answers) ==
    LET result == {r \in local_ratings : r.rating.v >= HighRating}
    IN  IF answers /\ result # {} THEN LastByRowid(result).tmdb_id ELSE Null

(***************************************************************************)
(* RecommendationService.ts over the external catalog.  tmdbApi.get        *)
(* resolves with the body of the answer or rejects; a body may lack the    *)
(* members the client reads.                                               *)
(***************************************************************************)
Digit(n) == CASE n = 1 -> "1" [] n = 2 -> "2" [] n = 3 -> "3" [] OTHER -> "0"

\* the catalog's entry of movie m
TMDBMovie(m) ==
    [id |-> Num(m), title |-> Str(<<"m", Digit(m)>>),
     poster_path |-> IF m = 2 THEN Str(<<"p">>) ELSE Null]

\* the catalog's lists, as TMDBRecommendationsResponse
Page(results) == [page |-> 1, results |-> results]
TMDBRecommendations(m) == Page(<<TMDBMovie(3 - m), TMDBMovie(3)>>)
TMDBTrending == Page(<<TMDBMovie(3), TMDBMovie(1)>>)
TMDBNowPlaying == Page(<<TMDBMovie(2)>>)
TMDBSearch(query) == Page(IF query = <<"m">> THEN <<TMDBMovie(1), TMDBMovie(2)>> ELSE <<>>)
TMDBCredits(m) == [cast |-> <<[id |-> Num(m), name |-> Str(<<"a">>)]>>,
                   crew |-> <<[id |-> Num(m), name |-> Str(<<"d">>)]>>]

\* what awaiting tmdbApi.get gives: a body, a body that is null, or an error
Fulfilled(data) == [status |-> "fulfilled", data |-> data]
Rejected == [status |-> "rejected", data |-> Null]
Outcomes(data) == {Fulfilled(data), Fulfilled(Null), Rejected}

\* what awaiting a function of the service gives
Resolves(value) == [outcome |-> "resolved", value |-> value]
Rejects == [outcome |-> "rejected", value |-> Null]

Array(seq) == [t |-> "array", v |-> seq]

\* transformMovie
transformMovie(tmdbMovie) ==
    [id |-> tmdbMovie.id, tmdb_id |-> tmdbMovie.id, title |-> tmdbMovie.title,
     poster_path |-> tmdbMovie.poster_path]

\* response.data.results.map(transformMovie), which throws on a body without results
Results(response) ==
    Array([i \in DOMAIN response.data.results |->
               transformMovie(response.data.results[i])])

\* the try block runs through when the request resolved with a whole body
Succeeds(response) == response.status = "fulfilled" /\ response.data # Null

getMovieDetails(response) ==
    IF Succeeds(response)
    THEN Resolves([t |-> "object", id |-> response.data.id, tmdb_id |-> response.data.id,
                   title |-> response.data.title])
    ELSE Resolves(Null)

getMovieCredits(response) ==
    IF Succeeds(response)
    THEN Resolves([t |-> "object", cast |-> response.data.cast, crew |-> response.data.crew])
    ELSE Resolves(Null)

\* getMovieRecommendations letting the error through
getMovieRecommendationsThrowing(response) ==
    IF Succeeds(response) THEN Resolves(Results(response)) ELSE Rejects

getMovieRecommendations(response) ==
    IF Succeeds(response) THEN Resolves(Results(response)) ELSE Resolves(Array(<<>>))

\* getTrendingMovies letting the error through
getTrendingMoviesThrowing(response) ==
    IF Succeeds(response) THEN Resolves(Results(response)) ELSE Rejects

getTrendingMovies(response) ==
    IF Succeeds(response) THEN Resolves(Results(response)) ELSE Resolves(Array(<<>>))

\* getNowPlayingMovies letting the error through
getNowPlayingMoviesThrowing(response) ==
    IF Succeeds(response) THEN Resolves(Results(response)) ELSE Rejects

getNowPlayingMovies(response) ==
    IF Succeeds(response) THEN Resolves(Results(response)) ELSE Resolves(Array(<<>>))

searchMovies(response) ==
    IF Succeeds(response) THEN Resolves(Results(response)) ELSE Resolves(Array(<<>>))

TrendingTitle == Str(<<"Trending This Week">>)
BecauseYouLiked(movieTitle) == Str(<<"Because you liked ">> \o movieTitle.v)

\* the catch of getRecommendations: trending once more, not caught this time
FallbackToTrending(trendingAgain) ==
    LET trendingMovies == getTrendingMovies(trendingAgain)
    IN  IF trendingMovies.outcome = "rejected" THEN Rejects
        ELSE Resolves([title |-> TrendingTitle, movies |-> trendingMovies.value])

\* RecommendationService.getRecommendations, given how the local query and
\* the catalog requests it makes turn out
getRecommendations(answers, details, recs, trending, trendingAgain) ==
    LET lastHighRatedMovieId == getLastHighRatedMovie(answers)
    IN  IF lastHighRatedMovieId # Null /\ lastHighRatedMovieId.v # 0
        THEN LET movieDetails == getMovieDetails(details)
                 movieTitle == IF movieDetails.value = Null
                               THEN Str(<<"your favorite movie">>)
                               ELSE movieDetails.value.title
                 recommendations == getMovieRecommendations(recs)
             IN  IF movieDetails.outcome = "rejected" \/ recommendations.outcome = "rejected"
                 THEN FallbackToTrending(trendingAgain)
                 ELSE Resolves([title |-> BecauseYouLiked(movieTitle),
                                movies |-> recommendations.value])
        ELSE LET trendingMovies == getTrendingMovies(trending)
             IN  IF trendingMovies.outcome = "rejected"
                 THEN FallbackToTrending(trendingAgain)
                 ELSE Resolves([title |-> TrendingTitle, movies |-> trendingMovies.value])

\* a client call that changes nothing settles with `result`
Answer(fn, result) ==
    /\ NoCalls
    /\ UNCHANGED <<server, local_tables, secure_store, inserted, calls>>
    /\ Settle(fn, result.outcome, result.value)

(***************************************************************************)
(* The user of the client.                                                 *)
(***************************************************************************)
\* StarRating renders maxStars stars, numbered from 1
maxStars == 5
Stars == 1..maxStars

\* the movie a screen shows, as the catalog gave it
Shown(m) == transformMovie(TMDBMovie(m))

\* handleStarPress: saveRating(tmdbId, star, null, movie.title, movie.poster_path ?? undefined)
handleStarPress(m, star) ==
    LET movie == Shown(m)
    IN  saveRating(movie.tmdb_id, Num(star), Null, movie.title,
                   IF movie.poster_path = Null THEN Undefined ELSE movie.poster_path)

DoHandleStarPress == (\E m \in MovieIds, star \in Stars : handleStarPress(m, star)) /\ UNCHANGED app
DoSaveRatingLocal == (\E s \in Slots : saveRatingLocal(s)) /\ UNCHANGED app
DoSaveRatingToken == (\E s \in Slots : saveRatingToken(s)) /\ UNCHANGED app
DoSaveRatingFetch == (\E s \in Slots : saveRatingFetch(s)) /\ UNCHANGED app
DoLogout == (logout) /\ UNCHANGED app

DoGetLocalRating ==
    (\E m \in MovieIds, answers \in BOOLEAN :
        Answer("getRating", Resolves(getRating(Num(m), answers))))
    /\ UNCHANGED app
DoGetLastHighRatedMovie ==
    (\E answers \in BOOLEAN :
        Answer("getLastHighRatedMovie", Resolves(getLastHighRatedMovie(answers))))
    /\ UNCHANGED app

\* how a request of getRecommendations turns out: answered or not
Requests(data) == {Fulfilled(data), Rejected}

\* the movie getRecommendations asks the catalog about, 0 when it asks for none
Requested(answers) ==
    LET id == getLastHighRatedMovie(answers) IN IF id = Null THEN 0 ELSE id.v

\* getRecommendations is called and settles, its requests turning out as given
RecommendationsCall(answers, details, recs, trending, trendingAgain) ==
    /\ details \in Requests(TMDBMovie(Requested(answers)))
    /\ recs \in Requests(TMDBRecommendations(Requested(answers)))
    /\ Answer("getRecommendations",
              getRecommendations(answers, details, recs, trending, trendingAgain))

DoGetRecommendations ==
    (\E answers \in BOOLEAN, trending, trendingAgain \in Requests(TMDBTrending) :
        \E details \in Requests(TMDBMovie(Requested(answers))),
           recs \in Requests(TMDBRecommendations(Requested(answers))) :
            RecommendationsCall(answers, details, recs, trending, trendingAgain))
    /\ UNCHANGED app

DoGetMovieDetails ==
    (\E m \in MovieIds : \E response \in Outcomes(TMDBMovie(m)) :
        Answer("getMovieDetails", getMovieDetails(response)))
    /\ UNCHANGED app
DoGetMovieCredits ==
    (\E m \in MovieIds : \E response \in Outcomes(TMDBCredits(m)) :
        Answer("getMovieCredits", getMovieCredits(response)))
    /\ UNCHANGED app
DoGetMovieRecommendations ==
    (\E m \in MovieIds : \E response \in Outcomes(TMDBRecommendations(m)) :
        Answer("getMovieRecommendations", getMovieRecommendations(response)))
    /\ UNCHANGED app
DoGetTrendingMovies ==
    (\E response \in Outcomes(TMDBTrending) :
        Answer("getTrendingMovies", getTrendingMovies(response)))
    /\ UNCHANGED app
DoGetNowPlayingMovies ==
    (\E response \in Outcomes(TMDBNowPlaying) :
        Answer("getNowPlayingMovies", getNowPlayingMovies(response)))
    /\ UNCHANGED app
DoSearchMovies ==
    (\E query \in {<<"m">>, <<"z">>} : \E response \in Outcomes(TMDBSearch(query)) :
        Answer("searchMovies", searchMovies(response)))
    /\ UNCHANGED app

\* the selector: ratings made while logged out, the local queries and the catalog
NextSelector ==
    \/ DoHandleStarPress
    \/ DoSaveRatingLocal
    \/ DoSaveRatingToken
    \/ DoGetLocalRating
    \/ DoGetLastHighRatedMovie
    \/ DoGetRecommendations
    \/ DoGetMovieDetails
    \/ DoGetMovieCredits
    \/ DoGetMovieRecommendations
    \/ DoGetTrendingMovies
    \/ DoGetNowPlayingMovies
    \/ DoSearchMovies

SpecSelector == Init /\ [][NextSelector]_vars

\* requests to POST /api/ratings that do not come from the client's screens
AnyRatingBodies ==
    {[tmdb_id |-> Num(1), rating |-> Num(9), review |-> Str(<<"r">>),
      title |-> Undefined, poster_path |-> Undefined]}

DoSaveAnyRating ==
    (\E h \in Bearers, body \in AnyRatingBodies : SaveRating(h, body)) /\ UNCHANGED device

\* a low and a high star of a movie are pressed
DoRate == (\E m \in MovieIds, star \in {2, maxStars} : handleStarPress(m, star)) /\ UNCHANGED app

\* the account of the client's user
Account == [name |-> AName, email |-> Str(<<"a", "@", "x">>), password |-> APassword]

DoCreateAccount == RegisterRequest(Account) /\ UNCHANGED device

\* the client logs in to the account with its password
DoSignIn == (login(Account.email, Account.password)) /\ UNCHANGED app

\* the rating sync: accounts on the server, a client that logs in and out and
\* rates, and other requests to the ratings route
NextSync ==
    \/ DoCreateAccount
    \/ DoRegisterResume
    \/ DoSignIn
    \/ DoLogout
    \/ DoRate
    \/ DoSaveRatingLocal
    \/ DoSaveRatingToken
    \/ DoSaveRatingFetch
    \/ DoSaveAnyRating

SpecSync == Init /\ [][NextSync]_vars

\* a star of movie 1 is pressed while the client is logged in, whatever
\* saveRating call is still in progress
DoRateOverlapping ==
    /\ secure_store # NoToken
    /\ \E s \in Slots, star \in {2, maxStars} :
          LET movie == Shown(1)
          IN  saveRatingAt(s, movie.tmdb_id, Num(star), Null, movie.title, Undefined)
    /\ UNCHANGED app

\* the token is read from the store
DoSaveRatingTokenRead ==
    (\E s \in Slots : saveRatingToken(s) /\ calls'[s] # NoCall) /\ UNCHANGED app

\* the request reaches the server
DoSaveRatingDelivered ==
    (\E s \in Slots :
        /\ saveRatingFetch(s)
        /\ SaveRating(<<"Bearer", calls[s].token>>, RatingRequest(calls[s])))
    /\ UNCHANGED app

\* overlapping ratings of a movie by a logged-in client, the server reachable
NextRace ==
    \/ DoCreateAccount
    \/ DoRegisterResume
    \/ DoSignIn
    \/ DoRateOverlapping
    \/ DoSaveRatingLocal
    \/ DoSaveRatingTokenRead
    \/ DoSaveRatingDelivered

SpecRace == Init /\ [][NextRace]_vars

\* the client registers the account, logs in with the right password or a
\* wrong one, asks who it is
DoRegister == register(Account.name, Account.email, Account.password) /\ UNCHANGED app
DoRegisterResponse == (\E s \in Slots : registerResponse(s)) /\ UNCHANGED app
DoLogIn ==
    (\E password \in {APassword, AnotherPassword} : login(Account.email, password))
    /\ UNCHANGED app
DoGetCurrentUser == (\E stored \in BOOLEAN : getCurrentUser(stored)) /\ UNCHANGED app

\* the session of the client: the token it keeps, while time passes
NextSession ==
    \/ DoRegister
    \/ DoRegisterResponse
    \/ DoLogIn
    \/ DoGetCurrentUser
    \/ DoLogout
    \/ Tick

SpecSession == Init /\ [][NextSession]_vars

\* the client over time: it registers, logs in and out, asks who it is,
\* rates movies and reads its ratings back
NextResync ==
    \/ DoRegister
    \/ DoRegisterResponse
    \/ DoSignIn
    \/ DoLogout
    \/ DoGetCurrentUser
    \/ DoRate
    \/ DoSaveRatingLocal
    \/ DoSaveRatingToken
    \/ DoSaveRatingFetch
    \/ DoGetLocalRating

SpecResync == Init /\ [][NextResync]_vars

(***************************************************************************)
(* The collections of the local store.  The store does not enforce its     *)
(* foreign keys: db.ts never sets PRAGMA foreign_keys.                     *)
(***************************************************************************)
\* db.createCollection
createCollection(name) ==
    LET lastInsertRowId == local_sequence.collections + 1
    IN  /\ NoCalls
        /\ UNCHANGED <<server, local_ratings, local_collection_items, secure_store,
                       inserted, calls>>
        /\ \/ /\ local_sequence.collections < MaxLocalCollections
              /\ local_collections' = local_collections \cup
                     {[id |-> lastInsertRowId, user_id |-> Null, name |-> name,
                       created_at |-> clock]}
              /\ local_sequence' = [local_sequence EXCEPT !.collections = lastInsertRowId]
              /\ Settle("createCollection", "resolved", Num(lastInsertRowId))
           \/ /\ UNCHANGED <<local_collections, local_sequence>>
              /\ Settle("createCollection", "rejected", Str(<<"runAsync">>))

\* db.getCollectionItems: the rows, [] when the query fails
getCollectionItems(collectionId, answers) ==
    IF answers THEN {i \in local_collection_items : i.collection_id = collectionId} ELSE {}

\* db.addMovieToCollection is called, whatever else is in progress: the
\* existence check is next
addMovieToCollectionAt(s, collectionId, movieObj) ==
    /\ calls[s] = NoCall
    /\ UNCHANGED <<server, local_tables, secure_store, inserted, ret>>
    /\ calls' = [calls EXCEPT ![s] =
                    [fn |-> "addMovieToCollection", pc |-> "getFirstAsync",
                     collectionId |-> collectionId,
                     tmdbId |-> IF movieObj.tmdb_id \in {Undefined, Null}
                                THEN movieObj.id ELSE movieObj.tmdb_id,
                     title |-> movieObj.title, poster_path |-> movieObj.poster_path]]

\* the same called while no other call is in progress
addMovieToCollection(collectionId, movieObj) ==
    NoCalls /\ addMovieToCollectionAt(1, collectionId, movieObj)

\* line 234: the movie is in the collection already, or the insert is next
addMovieCheck(s) ==
    LET c == calls[s]
        existing == {i \in local_collection_items :
                        i.collection_id = c.collectionId /\ i.tmdb_id = c.tmdbId}
    IN  /\ c.fn = "addMovieToCollection" /\ c.pc = "getFirstAsync"
        /\ UNCHANGED <<server, local_tables, secure_store, inserted>>
        /\ \/ IF existing # {}
              THEN /\ Return(s)
                   /\ Settle("addMovieToCollection", "resolved",
                             Num((CHOOSE i \in existing : TRUE).id))
              ELSE /\ calls' = [calls EXCEPT ![s].pc = "runAsync"]
                   /\ UNCHANGED ret
           \/ /\ Return(s)
              /\ Settle("addMovieToCollection", "rejected", Str(<<"getFirstAsync">>))

\* line 244: the insert
addMovieInsert(s) ==
    LET c == calls[s]
        lastInsertRowId == local_sequence.collection_items + 1
    IN  /\ c.fn = "addMovieToCollection" /\ c.pc = "runAsync"
        /\ UNCHANGED <<server, local_ratings, local_collections, secure_store, inserted>>
        /\ Return(s)
        /\ \/ /\ local_sequence.collection_items < MaxLocalItems
              /\ local_collection_items' = local_collection_items \cup
                     {[id |-> lastInsertRowId, collection_id |-> c.collectionId,
                       tmdb_id |-> c.tmdbId, title |-> c.title,
                       poster_path |-> c.poster_path]}
              /\ local_sequence' =
                     [local_sequence EXCEPT !.collection_items = lastInsertRowId]
              /\ Settle("addMovieToCollection", "resolved", Num(lastInsertRowId))
           \/ /\ UNCHANGED <<local_collection_items, local_sequence>>
              /\ Settle("addMovieToCollection", "rejected", Str(<<"runAsync">>))

\* db.deleteCollection is called, whatever else is in progress: the delete
\* of the items is next
deleteCollectionAt(s, collectionId) ==
    /\ calls[s] = NoCall
    /\ UNCHANGED <<server, local_tables, secure_store, inserted, ret>>
    /\ calls' = [calls EXCEPT ![s] =
                    [fn |-> "deleteCollection", pc |-> "items",
                     collectionId |-> collectionId]]

\* the same called while no other call is in progress
deleteCollection(collectionId) == NoCalls /\ deleteCollectionAt(1, collectionId)

\* deleteCollection that leaves the items where they are
deleteCollectionItemsKept(s) ==
    LET c == calls[s]
    IN  /\ c.fn = "deleteCollection" /\ c.pc = "items"
        /\ UNCHANGED <<server, local_tables, secure_store, inserted, ret>>
        /\ calls' = [calls EXCEPT ![s].pc = "collection"]

\* the deleteCollection that deletes the collection's row first
deleteCollectionRowFirst(s) ==
    LET c == calls[s]
    IN  /\ c.fn = "deleteCollection" /\ c.pc = "items"
        /\ UNCHANGED <<server, local_ratings, local_collection_items, local_sequence,
                       secure_store, inserted, ret>>
        /\ local_collections' = {k \in local_collections : k.id # c.collectionId}
        /\ calls' = [calls EXCEPT ![s].pc = "collection"]

\* line 372: DELETE FROM collection_items WHERE collection_id = ?
deleteCollectionItems(s) ==
    LET c == calls[s]
    IN  /\ c.fn = "deleteCollection" /\ c.pc = "items"
        /\ UNCHANGED <<server, local_ratings, local_collections, local_sequence,
                       secure_store, inserted>>
        /\ \/ /\ local_collection_items' =
                     {i \in local_collection_items : i.collection_id # c.collectionId}
              /\ calls' = [calls EXCEPT ![s].pc = "collection"]
              /\ UNCHANGED ret
           \/ /\ UNCHANGED local_collection_items
              /\ Return(s)
              /\ Settle("deleteCollection", "rejected", Str(<<"items">>))

\* line 375: DELETE FROM collections WHERE id = ?
deleteCollectionRow(s) ==
    LET c == calls[s]
    IN  /\ c.fn = "deleteCollection" /\ c.pc = "collection"
        /\ UNCHANGED <<server, local_ratings, local_collection_items, local_sequence,
                       secure_store, inserted>>
        /\ Return(s)
        /\ \/ /\ local_collections' = {k \in local_collections : k.id # c.collectionId}
              /\ Settle("deleteCollection", "resolved", Undefined)
           \/ /\ UNCHANGED local_collections
              /\ Settle("deleteCollection", "rejected", Str(<<"collection">>))

\* the rows a query gave
Rows(rows) == [t |-> "rows", v |-> rows]

LocalCollectionIds == 1..MaxLocalCollections

DoCreateLocalCollection == (createCollection(Str(<<"c">>))) /\ UNCHANGED app
DoAddMovieToCollection ==
    (\E collection \in local_collections, m \in MovieIds :
        addMovieToCollection(collection.id, Shown(m)))
    /\ UNCHANGED app
DoAddMovieCheck == (\E s \in Slots : addMovieCheck(s)) /\ UNCHANGED app
DoAddMovieInsert == (\E s \in Slots : addMovieInsert(s)) /\ UNCHANGED app
DoDeleteLocalCollection == (\E collection \in local_collections : deleteCollection(collection.id)) /\ UNCHANGED app
DoDeleteCollectionItems == (\E s \in Slots : deleteCollectionItems(s)) /\ UNCHANGED app
DoDeleteCollectionRow == (\E s \in Slots : deleteCollectionRow(s)) /\ UNCHANGED app
DoGetCollectionItems ==
    (\E collectionId \in LocalCollectionIds, answers \in BOOLEAN :
        Answer("getCollectionItems", Resolves(Rows(getCollectionItems(collectionId, answers)))))
    /\ UNCHANGED app

\* nothing was asked of the server yet, nothing was called on the device yet
ServerUntouched ==
    /\ users = {} /\ pending = [s \in 1..MaxInflight |-> Idle] /\ ctx.op = "listen"
DeviceUntouched ==
    /\ local_sequence = [collections |-> 0, collection_items |-> 0]
    /\ NoCalls /\ ret.fn = "none"

\* the collections: one account's on the server, or the local ones.  The
\* client calls no collection route, so that the two share no state and a
\* behaviour of both is a behaviour of each: the specification runs either.
NextCollections ==
    \/ DeviceUntouched /\ DoCreateAccount
    \/ DeviceUntouched /\ DoRegisterResume
    \/ DeviceUntouched /\ DoCreateCollection
    \/ DeviceUntouched /\ DoAddItem
    \/ DeviceUntouched /\ DoDeleteCollection
    \/ DeviceUntouched /\ DoGetItems
    \/ ServerUntouched /\ DoCreateLocalCollection
    \/ ServerUntouched /\ DoAddMovieToCollection
    \/ ServerUntouched /\ DoAddMovieCheck
    \/ ServerUntouched /\ DoAddMovieInsert
    \/ ServerUntouched /\ DoDeleteLocalCollection
    \/ ServerUntouched /\ DoDeleteCollectionItems
    \/ ServerUntouched /\ DoDeleteCollectionRow
    \/ ServerUntouched /\ DoGetCollectionItems

SpecCollections == Init /\ [][NextCollections]_vars

\* the app is killed: the calls in progress and what the module and the
\* screens hold are lost; the store, the token and the server stay
crash ==
    /\ calls' = [s \in Slots |-> NoCall]
    /\ ret' = [fn |-> "none", outcome |-> "none", value |-> Undefined]
    /\ db' = Null
    /\ isInitialized' = FALSE
    /\ detail' = NotMounted
    /\ home' = NotLoaded
    /\ opened' = 0
    /\ UNCHANGED <<server, local_tables, secure_store, inserted, created>>

\* killed while a call is suspended at an await
DoCrash == ~NoCalls /\ crash

\* the local collections of an app that can be killed at any await
NextCrash ==
    \/ DoCreateLocalCollection
    \/ DoAddMovieToCollection
    \/ DoAddMovieCheck
    \/ DoAddMovieInsert
    \/ DoDeleteLocalCollection
    \/ DoDeleteCollectionItems
    \/ DoDeleteCollectionRow
    \/ DoCrash

SpecCrash == Init /\ [][NextCrash]_vars

\* calls of the local collection functions that start while others are suspended
DoAddMovieOverlapping ==
    (\E s \in Slots, collection \in local_collections, m \in MovieIds :
        addMovieToCollectionAt(s, collection.id, Shown(m)))
    /\ UNCHANGED app
DoDeleteOverlapping ==
    (\E s \in Slots, collection \in local_collections :
        deleteCollectionAt(s, collection.id))
    /\ UNCHANGED app

\* the local collections under overlapping calls
NextOverlap ==
    \/ DoCreateLocalCollection
    \/ DoAddMovieOverlapping
    \/ DoAddMovieCheck
    \/ DoAddMovieInsert
    \/ DoDeleteOverlapping
    \/ DoDeleteCollectionItems
    \/ DoDeleteCollectionRow

SpecOverlap == Init /\ [][NextOverlap]_vars

(***************************************************************************)
(* db.ts, getDatabase: the module keeps `db` and `isInitialized`; a caller *)
(* is suspended at `await SQLite.openDatabaseAsync` and at                 *)
(* `await initializeTables(db)`.                                           *)
(***************************************************************************)
\* the handle the n-th successful open gives
Database(n) == [t |-> "database", v |-> n]

\* line 20-25, run when the caller is not suspended: create the tables if
\* the flag is not set, return db otherwise
InitializeOrReturn(s, caller, handle) ==
    IF ~isInitialized
    THEN /\ calls' = [calls EXCEPT ![s] = [fn |-> "getDatabase", pc |-> "initializeTables",
                                           caller |-> caller]]
         /\ UNCHANGED ret
    ELSE /\ Return(s)
         /\ Settle("getDatabase", "resolved", handle)

\* getDatabase is called: it opens the database if db is null
getDatabase(s, caller) ==
    /\ calls[s] = NoCall
    /\ UNCHANGED <<server, local_tables, secure_store, inserted, db, isInitialized,
                   opened, created, detail, home>>
    /\ IF db = Null
       THEN /\ calls' = [calls EXCEPT ![s] = [fn |-> "getDatabase", pc |-> "openDatabaseAsync",
                                              caller |-> caller]]
            /\ UNCHANGED ret
       ELSE InitializeOrReturn(s, caller, db)

\* line 16: openDatabaseAsync settles and db is assigned
openDatabaseAsync(s) ==
    /\ calls[s].fn = "getDatabase" /\ calls[s].pc = "openDatabaseAsync"
    /\ UNCHANGED <<server, local_tables, secure_store, inserted, isInitialized,
                   created, detail, home>>
    /\ \/ /\ opened' = opened + 1
          /\ db' = Database(opened + 1)
          /\ InitializeOrReturn(s, calls[s].caller, Database(opened + 1))
       \/ /\ UNCHANGED <<opened, db>>
          /\ Return(s)
          /\ Settle("getDatabase", "rejected", Str(<<"openDatabaseAsync">>))

\* line 21: initializeTables settles; the flag is set and db returned
initializeTables(s) ==
    /\ calls[s].fn = "getDatabase" /\ calls[s].pc = "initializeTables"
    /\ UNCHANGED <<server, local_tables, secure_store, inserted, db, opened,
                   detail, home>>
    /\ Return(s)
    /\ \/ /\ created' = TRUE
          /\ isInitialized' = TRUE
          /\ Settle("getDatabase", "resolved", db)
       \/ /\ UNCHANGED <<created, isInitialized>>
          /\ Settle("getDatabase", "rejected", Str(<<"execAsync">>))

\* the functions of db.ts that begin with `await getDatabase()`
Callers == {"initDB", "getRating", "getCollections"}

DoGetDatabase == \E s \in Slots, caller \in Callers : getDatabase(s, caller)
DoRestart == crash
DoOpenDatabaseAsync == \E s \in Slots : openDatabaseAsync(s)
DoInitializeTables == \E s \in Slots : initializeTables(s)

\* the callers of getDatabase
NextOpen ==
    \/ DoGetDatabase
    \/ DoOpenDatabaseAsync
    \/ DoInitializeTables
    \/ DoRestart

SpecOpen == Init /\ [][NextOpen]_vars

(***************************************************************************)
(* Properties of the resource API (Spec).                                  *)
(***************************************************************************)
UserIds == 1..MaxUsers

\* the rows of user u: the collections, the items in them, the ratings
CollectionsOf(u) == {c \in collections : c.user_id = u}
ItemsOf(u) ==
    {i \in collection_items : \E c \in CollectionsOf(u) : c.id = i.collection_id}
RatingsOf(u) == {r \in ratings : r.user_id = u}

\* the rows a response carries, whatever the field
RowsIn(body) == body.rows \cup (IF body.rating \in {Undefined, Null} THEN {} ELSE {body.rating})

\* this step is the answer to an authenticated request of one of these routes
Answers(ops) ==
    /\ ctx'.op \in ops
    /\ ctx'.user # NoUser
    /\ pending' = pending
    /\ clock' = clock

\* the caller and the path of the request answered by this step
Caller == ctx'.user.userId
PathId == ctx'.params.id
PathItemId == ctx'.params.itemId

CollectionScoped == {"getItems", "addItem", "deleteCollection", "deleteItem"}
ResourceRoutes ==
    CollectionScoped \cup {"getCollections", "createCollection", "getRatings",
                           "saveRating", "getRating"}

\* C1: a request made with A's token leaves the collections, items and ratings
\* of every other user B unchanged, and its response carries none of B's rows,
\* whatever collection id or item id the request names.
C1_Noninterference ==
    [][\A a, b \in UserIds :
          (a # b /\ Answers(ResourceRoutes) /\ Caller = a)
          => /\ CollectionsOf(b)' = CollectionsOf(b)
             /\ ItemsOf(b)' = ItemsOf(b)
             /\ RatingsOf(b)' = RatingsOf(b)
             /\ ctx'.op \in {"getCollections", "createCollection"}
                    => RowsIn(res'.body) \cap CollectionsOf(b)' = {}
             /\ ctx'.op = "getItems" => RowsIn(res'.body) \cap ItemsOf(b)' = {}
             /\ ctx'.op \in {"getRatings", "getRating"}
                    => RowsIn(res'.body) \cap RatingsOf(b)' = {}
             /\ res'.body.itemId \notin {i.id : i \in ItemsOf(b)}]_vars

\* A deleted an item of its own collection, naming an item id of B's collection
\* that still exists afterwards.
C1_Witness ==
    /\ ctx.op = "deleteItem"
    /\ res.status = 200
    /\ \E i \in collection_items :
          /\ i.id = ctx.params.itemId
          /\ i.collection_id # ctx.params.id
          /\ i \notin ItemsOf(ctx.user.userId)
    /\ \E b \in UserIds : b # ctx.user.userId /\ RatingsOf(b) # {}

NotFound == [status |-> 404, body |-> ErrorBody("Collection not found")]

\* no collection with this id belongs to this user
NotOwned(userId, id) == \A c \in collections : c.id = id => c.user_id # userId

\* C2: GET items, POST items, DELETE collection and DELETE item answer the same
\* 404 for a collection of another user as for one that does not exist, and
\* change no table.
C2_ForeignCollectionNotFound ==
    [][(Answers(CollectionScoped) /\ NotOwned(Caller, PathId))
          => res' = NotFound /\ UNCHANGED tables]_vars

\* a DELETE of a collection that exists and belongs to someone else was answered 404
C2_Witness ==
    /\ ctx.op = "deleteCollection"
    /\ res = NotFound
    /\ \E c \in collections : c.id = ctx.params.id /\ c.user_id # ctx.user.userId
    /\ \E c \in collections : c.id # ctx.params.id

\* no item with this id is in this collection
NoSuchItem(id, itemId) ==
    ~\E i \in collection_items : i.id = itemId /\ i.collection_id = id

\* this user has no rating of this movie
NoSuchRating(userId, tmdbId) ==
    ~\E r \in ratings : r.user_id = userId /\ r.tmdb_id = Num(tmdbId)

\* C3, as claimed: every lookup by key of a resource the caller does not have
\* (a collection, an item of a collection, a rating of a movie) answers 404.
C3_AsClaimed ==
    [][/\ (Answers(CollectionScoped) /\ NotOwned(Caller, PathId)) => res'.status = 404
       /\ (Answers({"deleteItem"}) /\ NoSuchItem(PathId, PathItemId)) => res'.status = 404
       /\ (Answers({"getRating"}) /\ NoSuchRating(Caller, PathId)) => res'.status = 404]_vars

\* C3, amended: a collection the caller does not have answers 404; DELETE of an
\* item that is not in the caller's collection answers 200 and deletes nothing;
\* GET of a rating the caller has not given answers 200 with rating null.
C3_MissingResource ==
    [][/\ (Answers(CollectionScoped) /\ NotOwned(Caller, PathId)) => res'.status = 404
       /\ (/\ Answers({"deleteItem"})
           /\ ~NotOwned(Caller, PathId)
           /\ NoSuchItem(PathId, PathItemId))
          => /\ res'.status = 200
             /\ res'.body.success
             /\ UNCHANGED tables
       /\ (Answers({"getRating"}) /\ NoSuchRating(Caller, PathId))
          => /\ res'.status = 200
             /\ res'.body.rating = Null
             /\ UNCHANGED tables]_vars

\* a DELETE of an item that is not in the caller's own collection was answered 200
C3_Witness ==
    /\ ctx.op = "deleteItem"
    /\ res.status = 200
    /\ ~\E i \in collection_items : i.id = ctx.params.itemId
    /\ sqlite_sequence.collection_items < ctx.params.itemId

(***************************************************************************)
(* Properties of the credential service and the middleware (SpecAuth).     *)
(***************************************************************************)
\* two characters are the same letter, whatever the case
SameLetter(c, d) == c = d \/ {c, d} \in {{"a", "A"}, {"b", "B"}, {"x", "X"}}

EqualIgnoringCase(s1, s2) ==
    Len(s1) = Len(s2) /\ \A i \in DOMAIN s1 : SameLetter(s1[i], s2[i])

IsLowerCase(s) == \A i \in DOMAIN s : s[i] \notin {"A", "B", "X"}

\* the field is absent from the body, or empty
Missing(v) == v = Undefined \/ v = Str(<<>>)

\* a user with this email, whatever the case, is registered
Registered(email) ==
    ~Missing(email) /\ \E u \in users : EqualIgnoringCase(u.email.v, email.v)

ProtectedHere(h) == Me(h) \/ GetCollections(h)

\* C4: a protected request without a token is answered 401, one with a token
\* the server did not sign or that has expired 403, both by the middleware and
\* with no table changed; only a verified token reaches the handler, with the
\* decoded identity as req.user.
C4_TokenMiddleware ==
    [][ctx'.op \in {"me", "getCollections"} =>
          \A h \in AuthHeaders :
              ProtectedHere(h) =>
                  LET token == BearerToken(h)
                  IN  /\ Len(h) < 2
                         => /\ res'.status = 401 /\ ctx'.line = 110
                            /\ ctx'.user = NoUser /\ UNCHANGED tables
                      /\ (Len(h) >= 2 /\ (token \notin IssuedTokens \/ token.exp <= clock))
                         => /\ res'.status = 403 /\ ctx'.line = 115
                            /\ ctx'.user = NoUser /\ UNCHANGED tables
                      /\ (Len(h) >= 2 /\ token \in IssuedTokens /\ clock < token.exp)
                         => /\ ctx'.line \notin {110, 115}
                            /\ ctx'.user.userId = token.userId
                            /\ ctx'.user.email = token.email]_vars

\* GET /api/collections was refused with 403 once every issued token had expired
C4_Witness ==
    /\ ctx.op = "getCollections"
    /\ res.status = 403
    /\ ctx.line = 115
    /\ issued # {}
    /\ \A t \in IssuedTokens : t.exp <= clock
    /\ ctx.user = NoUser

\* C5, as claimed: a register with an email that is registered, whatever the
\* case, is answered 409 Conflict, adds no user and issues no token.
C5_AsClaimed ==
    [][(ctx'.op = "register" \/ pending' # pending) =>
          \A body \in RegisterBodies :
              (Registered(body.email) /\ RegisterRequest(body))
              => /\ res'.status = 409
                 /\ users' = users
                 /\ issued' = issued]_vars

\* C5, amended: such a register is answered 400 (with 'Email already registered'
\* when its fields are otherwise valid), adds no user, issues no token and
\* suspends no call.
C5_DuplicateEmailRejected ==
    [][(ctx'.op = "register" \/ pending' # pending) =>
          \A body \in RegisterBodies :
              (Registered(body.email) /\ RegisterRequest(body))
              => /\ res'.status = 400
                 /\ (~Missing(body.name) /\ ~Missing(body.password)
                     /\ Len(body.password.v) >= 6)
                    => res'.body.error = "Email already registered"
                 /\ res'.body.token = NoToken
                 /\ UNCHANGED <<tables, issued, pending>>]_vars

\* a register with a registered email and otherwise valid fields was refused
C5_Witness ==
    /\ ctx.op = "register"
    /\ ctx.line = 144
    /\ res.status = 400
    /\ users # {}
    /\ pending = [s \in DOMAIN pending |-> Idle]

UniqueEmails ==
    \A u, w \in users : EqualIgnoringCase(u.email.v, w.email.v) => u = w

\* C6, as claimed: no two users share an email, and a register that resumes
\* after the email was taken is refused as a duplicate (409, or the answer the
\* existence check gives).
C6_AsClaimed ==
    [][/\ UniqueEmails'
       /\ \A s \in DOMAIN pending :
             (/\ pending[s] # Idle
              /\ Registered(pending[s].email)
              /\ RegisterResume(s))
             => /\ users' = users
                /\ \/ res'.status = 409
                   \/ res'.body.error = "Email already registered"]_vars

\* the email has at least one character and none of them is "@"
LacksAt(email) == \A i \in DOMAIN email.v : email.v[i] # "@"

Invalid(body) ==
    \/ Missing(body.name) \/ Missing(body.email) \/ Missing(body.password)
    \/ LacksAt(body.email)
    \/ Len(body.password.v) < 6

\* C7: a register with a missing name, email or password, an email without "@"
\* or a password shorter than 6 is answered 400 with a message, adds no user,
\* issues no token and suspends no call.
C7_RegisterValidation ==
    [][(ctx'.op = "register" \/ pending' # pending) =>
          \A body \in RegisterBodies :
              (Invalid(body) /\ RegisterRequest(body))
              => /\ res'.status = 400
                 /\ res'.body.error # ""
                 /\ res'.body.token = NoToken
                 /\ ctx'.line \in {130, 134, 138}
                 /\ UNCHANGED <<tables, issued, pending>>]_vars

\* an email without "@" was refused while a user exists and a register is suspended
C7_Witness ==
    /\ ctx.op = "register"
    /\ ctx.line = 134
    /\ res.status = 400
    /\ users # {}
    /\ pending[1] # Idle

\* C8: a register answered 201 has added exactly one user, with the lower-cased
\* email of the request; the token is signed, carries that row's id and email
\* and expires 30 days after it was issued; the user record is the row's id,
\* name, email and creation time and nothing else.
C8_RegisterSuccess ==
    [][\A s \in DOMAIN pending :
          (ctx'.op = "register" /\ res'.status = 201 /\ pending[s] # Idle /\ RegisterResume(s))
          => LET token == res'.body.token
                 user == res'.body.user
             IN  /\ Cardinality(users') = Cardinality(users) + 1
                 /\ \E row \in users' \ users :
                       /\ users' = users \cup {row}
                       /\ IsLowerCase(row.email.v)
                       /\ EqualIgnoringCase(row.email.v, pending[s].email.v)
                       /\ row.name = pending[s].name
                       /\ token.userId = row.id
                       /\ token.email = row.email
                       /\ token.sig = JWT_SECRET
                       /\ token.iat = clock
                       /\ token.exp = token.iat + 30
                       /\ DOMAIN user = {"id", "name", "email", "created_at"}
                       /\ user.id = row.id
                       /\ user.name = row.name
                       /\ user.email = row.email
                       /\ user.created_at = row.created_at]_vars

\* the second user registered, with an email typed in upper case, after a tick
C8_Witness ==
    /\ ctx.op = "register"
    /\ res.status = 201
    /\ res.body.user.id = 2
    /\ res.body.token.exp = clock + 30
    /\ clock > 0

Unauthorized == [status |-> 401, body |-> ErrorBody("Invalid email or password")]

UnknownEmail(body) == ~Registered(body.email)

WrongPassword(body) ==
    \E u \in users : /\ EqualIgnoringCase(u.email.v, body.email.v)
                     /\ u.password_hash.of # body.password.v

\* C9: a login with an unknown email and a login with a known email and a wrong
\* password get one and the same answer, 401 'Invalid email or password', and
\* no token.
C9_LoginFailuresIdentical ==
    [][ctx'.op = "login" =>
          \A body \in LoginBodies :
              (/\ ~Missing(body.email) /\ ~Missing(body.password)
               /\ (UnknownEmail(body) \/ WrongPassword(body))
               /\ Login(body))
              => res' = Unauthorized /\ issued' = issued]_vars

\* a login with a registered email and a wrong password was refused
C9_Witness ==
    /\ ctx.op = "login"
    /\ ctx.line = 191
    /\ res = Unauthorized
    /\ Cardinality(users) = 2

\* the id the register of this email returned
RegisteredIds(email) ==
    {i.token.userId : i \in {j \in issued : j.via = "register" /\ j.token.email = email}}

\* C10: GET /api/auth/me with an unexpired token that a login returned answers
\* 200 with the user id that the register of that email returned.
C10_LoginThenMe ==
    [][ctx'.op = "me" =>
          \A i \in issued :
              (i.via = "login" /\ clock < i.token.exp /\ Me(<<"Bearer", i.token>>))
              => /\ res'.status = 200
                 /\ RegisteredIds(i.token.email) = {res'.body.user.id}
                 /\ res'.body.user.email = i.token.email]_vars

\* the second user logged in after a tick and asked for /me
C10_Witness ==
    /\ ctx.op = "me"
    /\ res.status = 200
    /\ res.body.user.id = 2
    /\ \E i \in issued : i.via = "login" /\ Decoded(i.token) = ctx.user
    /\ clock > 0
    /\ \E i \in issued : i.via = "register" /\ i.token.exp <= clock

(***************************************************************************)
(* Claims about the ratings, checked under SpecSync.                       *)
(***************************************************************************)
\* the rows of a user's rating of a movie among the server's, and the rows of
\* a movie among the local ones
ServerRatings(rows, userId, tmdbId) ==
    {r \in rows : r.user_id = userId /\ r.tmdb_id = tmdbId}
LocalRatings(rows, tmdbId) == {r \in rows : r.tmdb_id = tmdbId}

\* the step is the fetch of the saveRating call in slot s reaching the server
FetchOf(s) ==
    /\ calls[s] # NoCall
    /\ calls[s].fn = "saveRating"
    /\ calls[s].pc = "fetch"
    /\ calls'[s] = NoCall
    /\ SaveRating(<<"Bearer", calls[s].token>>, RatingRequest(calls[s]))

\* the step is the local write of the saveRating call in slot s
LocalWriteOf(s) ==
    /\ calls[s] # NoCall
    /\ calls[s].fn = "saveRating"
    /\ calls[s].pc = "runAsync"
    /\ calls'[s] = [calls[s] EXCEPT !.pc = "getToken"]

AtMostOnePerMovie ==
    /\ \A r, q \in ratings : (r.user_id = q.user_id /\ r.tmdb_id = q.tmdb_id) => r = q
    /\ \A r, q \in local_ratings : r.tmdb_id = q.tmdb_id => r = q

\* C11: the server holds at most one rating row per (user, movie) and the
\* local store at most one per movie; a rating of a movie that is already
\* rated leaves, where it was written, the new value as the stored one.
C11_RatingOverwrites ==
    [][/\ AtMostOnePerMovie'
       /\ \A s \in Slots :
             LET c == calls[s]
             IN  /\ (FetchOf(s) /\ res'.status = 200
                     /\ ServerRatings(ratings, c.token.userId, c.tmdbId) # {})
                    => {r.rating : r \in ServerRatings(ratings', c.token.userId, c.tmdbId)}
                           = {c.rating}
                 /\ (LocalWriteOf(s) /\ LocalRatings(local_ratings, c.tmdbId) # {})
                    => {r.rating : r \in LocalRatings(local_ratings', c.tmdbId)} = {c.rating}
       /\ \A h \in Bearers, body \in AnyRatingBodies :
             LET userId == BearerToken(h).userId
             IN  (SaveRating(h, body) /\ res'.status = 200 /\ calls' = calls
                  /\ ServerRatings(ratings, userId, body.tmdb_id) # {})
                 => {r.rating : r \in ServerRatings(ratings', userId, body.tmdb_id)}
                        = {body.rating}]_vars

\* the client rated movie 1, the server followed, and another request of the
\* user then rated it 9: the server's row has the title of the first and the
\* rating of the second
C11_Witness ==
    /\ ctx.op = "saveRating"
    /\ res.status = 200
    /\ sqlite_sequence.ratings = 1
    /\ \E r \in ratings :
          r.tmdb_id = Num(1) /\ r.rating = Num(9) /\ r.title = Shown(1).title
    /\ \E r \in local_ratings : r.tmdb_id = Num(1) /\ r.rating = Num(maxStars)
    /\ \E r \in local_ratings : r.tmdb_id = Num(2)
    /\ inserted = <<Num(1), Num(2)>>

\* a member the request does not carry, or carries as null
Absent(v) == v \in {Undefined, Null}

\* the row the claim expects in place of row `old` after the request `body`
Overwritten(old, body) ==
    [old EXCEPT !.rating = body.rating,
                !.review = IF Absent(body.review) THEN Null ELSE body.review,
                !.title = IF Absent(body.title) THEN old.title ELSE body.title,
                !.poster_path = IF Absent(body.poster_path) THEN old.poster_path
                                ELSE body.poster_path]

\* the step changed the ratings table as an upsert of `body` for `userId` does
UpsertedFor(userId, body) ==
    LET existing == ServerRatings(ratings, userId, body.tmdb_id)
    IN  /\ res'.status = 200
        /\ res'.body.success
        /\ IF existing # {}
           THEN ratings' = (ratings \ existing) \cup {Overwritten(r, body) : r \in existing}
           ELSE /\ ratings \subseteq ratings'
                /\ \E r \in ratings' \ ratings :
                      /\ ratings' = ratings \cup {r}
                      /\ r.user_id = userId /\ r.tmdb_id = body.tmdb_id
                      /\ r.rating = body.rating
                      /\ r.review = (IF Absent(body.review) THEN Null ELSE body.review)
                      /\ r.title = (IF Absent(body.title) THEN Null ELSE body.title)
                      /\ r.poster_path =
                             (IF Absent(body.poster_path) THEN Null ELSE body.poster_path)

\* C12: POST /api/ratings with a movie id and a rating updates rating and
\* review of the caller's row of that movie when there is one, keeps the
\* stored title and poster path where the request carries none, and
\* succeeds; it inserts the row when there is none.
C12_ServerUpsert ==
    [][/\ \A s \in Slots :
             FetchOf(s) => UpsertedFor(calls[s].token.userId, RatingRequest(calls[s]))
       /\ \A h \in Bearers, body \in AnyRatingBodies :
             (SaveRating(h, body) /\ calls' = calls)
             => UpsertedFor(BearerToken(h).userId, body)]_vars

\* a request without title and poster path updated the row the client's
\* rating had inserted: rating and review are the request's, the title is kept
C12_Witness ==
    /\ ctx.op = "saveRating"
    /\ ctx.line = 425
    /\ \E r \in ratings :
          /\ r.tmdb_id = Num(1) /\ r.rating = Num(9) /\ r.review = Str(<<"r">>)
          /\ r.title = Shown(1).title /\ r.poster_path = Null
    /\ \E r \in ratings : r.tmdb_id = Num(2) /\ r.poster_path = Shown(2).poster_path

\* C13, as claimed: every stored rating, on the server and in the local
\* store, has a star value in 1..5, whatever rating values requests carry.
C13_AsClaimed ==
    /\ \A r \in ratings : r.rating.t = "number" /\ r.rating.v \in 1..maxStars
    /\ \A r \in local_ratings : r.rating.t = "number" /\ r.rating.v \in 1..maxStars

(***************************************************************************)
(* Claims about deleting a collection, checked under SpecCollections.      *)
(***************************************************************************)
\* the collection was created on the server and its row is gone
DeletedOnServer(id) ==
    id \in 1..sqlite_sequence.collections /\ ~\E c \in collections : c.id = id

\* the same on the device
DeletedLocally(id) ==
    id \in 1..local_sequence.collections /\ ~\E c \in local_collections : c.id = id

\* this step is the second DELETE of deleteCollection, and the call resolves
DeleteResolvesFor(s) ==
    /\ calls[s].fn = "deleteCollection" /\ calls[s].pc = "collection"
    /\ calls'[s] = NoCall
    /\ ret' = [fn |-> "deleteCollection", outcome |-> "resolved", value |-> Undefined]

\* this step is getCollectionItems(id) and the call resolves to these rows
ItemsQueried(id, answers) ==
    Answer("getCollectionItems", Resolves(Rows(getCollectionItems(id, answers))))

C14_WitnessLocal ==
    /\ ret.fn = "getCollectionItems"
    /\ \E id \in LocalCollectionIds : DeletedLocally(id)
    /\ local_sequence.collection_items > 0
    /\ local_collection_items = {}

(***************************************************************************)
(* Claims about saveRating, checked under SpecSync.                        *)
(***************************************************************************)
\* the local row of the call's movie holds what the call was given
WrittenLocally(c) ==
    \E r \in local_ratings :
        r.tmdb_id = c.tmdbId /\ r.rating = c.rating /\ r.review = c.review

\* the step ends the call in slot s
Ends(s) == calls[s] # NoCall /\ calls'[s] = NoCall

\* the step has the server answer a request
ServerAnswers == ctx' # ctx \/ res' # res \/ server' # server

\* C15: saveRating writes the local row before any request to the server; the
\* request is made only with a stored token; a sync that fails leaves the call
\* resolved and the local row as it is; a local write that fails rejects the
\* call, and the server gets no request.
C15_SaveRatingOrder ==
    [][\A s \in Slots :
          LET c == calls[s]
          IN  (c # NoCall /\ c.fn = "saveRating") =>
              /\ c.pc \in {"getToken", "fetch"} => WrittenLocally(c)
              /\ c.pc # "fetch" => (calls' # calls => ~ServerAnswers)
              /\ (c.pc = "getToken" /\ calls'[s] # c)
                 => IF secure_store = NoToken
                    THEN Ends(s) /\ ret'.outcome = "resolved"
                    ELSE Ends(s) \/ (calls'[s].pc = "fetch" /\ calls'[s].token = secure_store)
              /\ (c.pc = "fetch" /\ calls'[s] # c)
                 => /\ c.token # NoToken
                    /\ Ends(s)
                    /\ ret' = [fn |-> "saveRating", outcome |-> "resolved",
                               value |-> Undefined]
                    /\ UNCHANGED local_tables
              /\ (c.pc = "runAsync" /\ Ends(s))
                 => /\ ret'.fn = "saveRating" /\ ret'.outcome = "rejected"
                    /\ UNCHANGED <<server, local_tables>>]_vars

\* a rating was saved with a token stored and the server has no row: the sync
\* failed and the call resolved, with the local row in place
C15_Witness ==
    /\ NoCalls
    /\ ret = [fn |-> "saveRating", outcome |-> "resolved", value |-> Undefined]
    /\ secure_store # NoToken
    /\ local_ratings # {}
    /\ ratings = {}

(***************************************************************************)
(* Claims about the recommendation selector and the catalog functions,     *)
(* checked under SpecSelector.                                             *)
(***************************************************************************)
\* the local ratings of 4 stars and more
HighRated == {r \in local_ratings : r.rating.v >= HighRating}

\* C16: with no local rating of 4 or more getRecommendations resolves to the
\* trending list under 'Trending This Week'; with one, and the local query
\* answering, it resolves to what getMovieRecommendations gave for a movie
\* rated 4 or more, under 'Because you liked ' and the title of that movie
\* (or 'your favorite movie' when its details could not be fetched).
C16_Selector ==
    [][(ret' # ret /\ ret'.fn = "getRecommendations") =>
       \A answers \in BOOLEAN, trending, trendingAgain \in Requests(TMDBTrending) :
          \A details \in Requests(TMDBMovie(Requested(answers))),
             recs \in Requests(TMDBRecommendations(Requested(answers))) :
             RecommendationsCall(answers, details, recs, trending, trendingAgain) =>
                /\ ret'.outcome = "resolved"
                /\ HighRated = {} =>
                      /\ ret'.value.title = TrendingTitle
                      /\ ret'.value.movies = getTrendingMovies(trending).value
                      /\ Succeeds(trending) => ret'.value.movies = Results(Fulfilled(TMDBTrending))
                /\ (HighRated # {} /\ answers) =>
                      \E r \in HighRated :
                         LET liked == TMDBMovie(r.tmdb_id.v)
                         IN  /\ recs \in Requests(TMDBRecommendations(r.tmdb_id.v))
                             /\ ret'.value.movies = getMovieRecommendations(recs).value
                             /\ Succeeds(recs) =>
                                   ret'.value.movies =
                                       Results(Fulfilled(TMDBRecommendations(r.tmdb_id.v)))
                             /\ ret'.value.title =
                                   IF Succeeds(details)
                                   THEN BecauseYouLiked(liked.title)
                                   ELSE BecauseYouLiked(Str(<<"your favorite movie">>))]_vars

\* movie 1 is the one rated 4 or more, and getRecommendations gave the
\* recommendations for it under its title
C16_Witness ==
    /\ ret.fn = "getRecommendations"
    /\ {r.tmdb_id : r \in HighRated} = {Num(1)}
    /\ local_ratings # HighRated
    /\ ret.value.title = BecauseYouLiked(TMDBMovie(1).title)
    /\ ret.value.movies = Results(Fulfilled(TMDBRecommendations(1)))

\* the movie whose rating of 4 or more was inserted last, null without one
RECURSIVE LastInserted(_)
LastInserted(seq) ==
    IF seq = <<>> THEN Null
    ELSE IF \E r \in HighRated : r.tmdb_id = seq[Len(seq)]
         THEN seq[Len(seq)]
         ELSE LastInserted(SubSeq(seq, 1, Len(seq) - 1))

\* C17, as claimed: getLastHighRatedMovie resolves to the movie of the rating
\* of 4 or more that was inserted most recently, null when there is none.
C17_AsClaimed ==
    [][\A answers \in BOOLEAN :
          (/\ answers
           /\ Answer("getLastHighRatedMovie", Resolves(getLastHighRatedMovie(answers))))
          => ret'.value = LastInserted(inserted)]_vars

\* C18, as claimed: with a rating of 4 or more and a recommendations request
\* that fails, getRecommendations resolves to the trending list fetched in
\* its catch, under 'Trending This Week'.
C18_AsClaimed ==
    [][(ret' # ret /\ ret'.fn = "getRecommendations") =>
       \A answers \in BOOLEAN, trending, trendingAgain \in Requests(TMDBTrending) :
          \A details \in Requests(TMDBMovie(Requested(answers))),
             recs \in Requests(TMDBRecommendations(Requested(answers))) :
             (/\ RecommendationsCall(answers, details, recs, trending, trendingAgain)
              /\ Requested(answers) # 0
              /\ ~Succeeds(recs))
             => /\ ret'.value.title = TrendingTitle
                /\ ret'.value.movies = getTrendingMovies(trendingAgain).value]_vars

\* the functions of the service that answer with a list, and with an object
ListFunctions ==
    {"searchMovies", "getTrendingMovies", "getNowPlayingMovies", "getMovieRecommendations"}
ObjectFunctions == {"getMovieDetails", "getMovieCredits"}

\* the step is a call of fn whose request turned out as `response`
CatalogCall(fn, response) ==
    Answer(fn, CASE fn = "searchMovies" -> searchMovies(response)
                 [] fn = "getTrendingMovies" -> getTrendingMovies(response)
                 [] fn = "getNowPlayingMovies" -> getNowPlayingMovies(response)
                 [] fn = "getMovieRecommendations" -> getMovieRecommendations(response)
                 [] fn = "getMovieDetails" -> getMovieDetails(response)
                 [] fn = "getMovieCredits" -> getMovieCredits(response))

\* a request that rejected, and one whose body could not be read
Failures == {Rejected, Fulfilled(Null)}

\* C19: no function of the catalog service rejects; when its request fails or
\* the answer cannot be read, a list function resolves to the empty list and
\* getMovieDetails and getMovieCredits resolve to null.
C19_CatalogNeverThrows ==
    [][/\ (ret' # ret /\ ret'.fn \in ListFunctions \cup ObjectFunctions)
          => ret'.outcome = "resolved"
       /\ ret' # ret => \A response \in Failures :
             /\ \A fn \in ListFunctions :
                   CatalogCall(fn, response)
                      => ret'.outcome = "resolved" /\ ret'.value = Array(<<>>)
             /\ \A fn \in ObjectFunctions :
                   CatalogCall(fn, response)
                      => ret'.outcome = "resolved" /\ ret'.value = Null]_vars

\* the trending request failed and getTrendingMovies resolved to the empty list
C19_Witness ==
    /\ ret.fn = "getTrendingMovies"
    /\ ret.outcome = "resolved"
    /\ ret.value = Array(<<>>)

(***************************************************************************)
(* Validation of the resource routes, checked under Spec.                  *)
(***************************************************************************)
\* the body has no such member
Without(v) == v = Undefined

\* C20: POST /api/collections without a name, and POST /api/ratings without
\* tmdb_id or without rating, are answered 400 with an error message, and no
\* table changes.
C20_ResourceValidation ==
    [][Answers({"createCollection", "saveRating"}) =>
       \A h \in Bearers :
          /\ \A body \in CollectionBodies :
                (Without(body.name) /\ CreateCollection(h, body))
                   => /\ res'.status = 400
                      /\ res'.body = ErrorBody("Collection name is required")
                      /\ UNCHANGED tables
          /\ \A body \in RatingBodies :
                ((Without(body.tmdb_id) \/ Without(body.rating)) /\ SaveRating(h, body))
                   => /\ res'.status = 400
                      /\ res'.body = ErrorBody("Movie ID and rating are required")
                      /\ UNCHANGED tables]_vars

\* a rating without one of the two was refused while the tables held rows
C20_Witness ==
    /\ ctx.op = "saveRating" /\ ctx.user # NoUser
    /\ res.status = 400
    /\ ratings # {}
    /\ collections # {}

(***************************************************************************)
(* Claims about the local collections of an app that can be killed, and of *)
(* calls that overlap.                                                     *)
(***************************************************************************)
\* the local items whose collection has no row
Orphans == {i \in local_collection_items :
                ~\E k \in local_collections : k.id = i.collection_id}

\* the step kills the app while the deleteCollection of slot s is between
\* its two statements
CrashBetween(s) ==
    /\ calls[s] # NoCall
    /\ calls[s].fn = "deleteCollection" /\ calls[s].pc = "collection"
    /\ calls' = [t \in Slots |-> NoCall]
    /\ ret'.fn = "none"

\* C21, as claimed: a crash between the two statements of deleteCollection
\* leaves item rows whose collection row no longer exists.
C21_AsClaimed ==
    [][\A s \in Slots : CrashBetween(s) => Orphans' # {}]_vars

\* C21, amended: deleteCollection deletes the items of the collection, then,
\* in a second statement, its row; a crash between the two leaves the row of
\* the collection and none of its items, and no item is ever without its
\* collection.
C21_CrashKeepsCollection ==
    [][/\ Orphans' = {}
       /\ \A s \in Slots :
             LET c == calls[s]
             IN  /\ (c # NoCall /\ c.fn = "deleteCollection" /\ c.pc = "items"
                     /\ calls'[s] # NoCall /\ calls'[s].pc = "collection")
                    => /\ ~\E i \in local_collection_items' : i.collection_id = c.collectionId
                       /\ UNCHANGED local_collections
                 /\ CrashBetween(s)
                    => /\ UNCHANGED local_tables
                       /\ \E k \in local_collections' : k.id = c.collectionId
                       /\ ~\E i \in local_collection_items' :
                              i.collection_id = c.collectionId]_vars

\* the app was killed after the items of its only collection were deleted
\* and before the collection was
C21_Witness ==
    /\ NoCalls /\ ret.fn = "none"
    /\ local_sequence.collections = 1
    /\ local_collections # {}
    /\ local_sequence.collection_items > 0
    /\ local_collection_items = {}

\* C22, as claimed: when a local deleteCollection(c) resolves, no item row of
\* collection c exists, whatever addMovieToCollection calls overlap with it.
C22_AsClaimed ==
    [][\A s \in Slots :
          DeleteResolvesFor(s)
             => ~\E i \in local_collection_items' :
                    i.collection_id = calls[s].collectionId]_vars

\* C23, as claimed: a collection holds at most one item per movie, on the
\* server and locally, overlapping local calls included.
C23_AsClaimed ==
    /\ \A i, j \in collection_items :
          (i.collection_id = j.collection_id /\ i.tmdb_id = j.tmdb_id) => i = j
    /\ \A i, j \in local_collection_items :
          (i.collection_id = j.collection_id /\ i.tmdb_id = j.tmdb_id) => i = j

\* C24, as claimed: the database is opened at most once, and getDatabase
\* resolves only when the tables have been created.
C24_AsClaimed ==
    /\ opened <= 1
    /\ (ret.fn = "getDatabase" /\ ret.outcome = "resolved") => created

(***************************************************************************)
(* Claims about the rating sync and the stored token.                      *)
(***************************************************************************)
\* C25, as claimed: once the saveRating calls of a logged-in client have
\* completed, their requests delivered, the server's rating of a movie by the
\* user equals the local one, overlapping calls for the movie included.
C25_AsClaimed ==
    NoCalls =>
        \A r \in local_ratings, q \in ratings :
            (secure_store # NoToken
             /\ q.user_id = secure_store.userId /\ q.tmdb_id = r.tmdb_id)
            => q.rating = r.rating

\* the call that settled last answered that it succeeded
Succeeded == ret'.fn \in {"login", "register"} /\ ret'.value.success

\* the server's last answer is a 401 or a 403 to GET /api/auth/me
MeRefused == ctx'.op = "me" /\ res'.status \in {401, 403}

\* C27: the stored token changes only to the token of the answer to a login
\* or register that succeeded, or to none by logout and by a getCurrentUser
\* that was answered 401 or 403; a login or register that fails, a network
\* error, and a getCurrentUser that was answered otherwise leave it as it
\* is, and a getCurrentUser without a user resolves to null.
C27_TokenFrame ==
    [][/\ secure_store' # secure_store =>
             \/ /\ Succeeded
                /\ ctx'.op = ret'.fn /\ res'.status \in {200, 201}
                /\ secure_store' = res'.body.token
             \/ ret'.fn = "logout" /\ secure_store' = NoToken
             \/ /\ ret'.fn = "getCurrentUser" /\ MeRefused
                /\ secure_store' = NoToken
                /\ ret'.value = Null
       /\ (ret' # ret /\ Succeeded)
             => secure_store' = res'.body.token /\ secure_store' # NoToken
       /\ (ret' # ret /\ ret'.fn \in {"login", "register"} /\ ~ret'.value.success)
             => UNCHANGED secure_store
       /\ (ret' # ret /\ ret'.fn = "getCurrentUser" /\ ~MeRefused)
             => /\ UNCHANGED secure_store
                /\ res'.status \notin {200, 201} => ret'.value = Null]_vars

\* the token expired, getCurrentUser was answered 403 and the token is gone
C27_Witness ==
    /\ ret.fn = "getCurrentUser" /\ ret.value = Null
    /\ ctx.op = "me" /\ res.status = 403
    /\ users # {}
    /\ secure_store = NoToken

\* the step has the server handle a POST /api/ratings
RatingRequested ==
    ctx'.op = "saveRating" /\ <<res, ctx, ratings>>' # <<res, ctx, ratings>>

\* C26: the server gets a rating only from the fetch of the saveRating call
\* that wrote it locally, and that call reached its fetch only with a token
\* in the store; login, register, getCurrentUser, logout and reading a
\* rating never change the server's ratings, so that a rating that was not
\* sent by its own call is never sent.
C26_NoResync ==
    [][/\ ratings' # ratings => ctx'.op = "saveRating"
       /\ RatingRequested =>
             \E s \in Slots :
                LET c == calls[s]
                IN  /\ c # NoCall /\ c.fn = "saveRating" /\ c.pc = "fetch"
                    /\ calls'[s] = NoCall
                    /\ c.token # NoToken
                    /\ WrittenLocally(c)
                    /\ \A r \in ratings' \ ratings :
                          /\ r.user_id = c.token.userId
                          /\ r.tmdb_id = c.tmdbId
                          /\ r.rating = c.rating
       /\ \A s \in Slots :
             (calls[s] # NoCall /\ calls'[s] # NoCall /\ calls[s].pc # "fetch"
              /\ calls'[s].pc = "fetch")
             => /\ calls[s].fn = "saveRating" /\ calls[s].pc = "getToken"
                /\ secure_store # NoToken
                /\ calls'[s].token = secure_store
       /\ (ret' # ret
           /\ ret'.fn \in {"login", "register", "getCurrentUser", "logout", "getRating"})
             => UNCHANGED <<ratings, local_ratings>>]_vars

\* movie 1 was rated while logged out, the client then logged in and rated
\* movie 2: the server has the rating of movie 2 and not that of movie 1
C26_Witness ==
    /\ NoCalls
    /\ secure_store # NoToken
    /\ {r.tmdb_id : r \in local_ratings} = {Num(1), Num(2)}
    /\ {q.tmdb_id : q \in ratings} = {Num(2)}

(***************************************************************************)
(* Login by a letter-case variant of the registered email (SpecAuth).      *)
(***************************************************************************)
\* the user whose email is this one, whatever the case, with this password
Holder(body) ==
    {u \in users : /\ EqualIgnoringCase(u.email.v, body.email.v)
                   /\ u.password_hash.of = body.password.v}

\* C28: a login with an email that equals a registered email ignoring letter
\* case, and with that user's password, is answered 200 with a token for the
\* id that the register of that user returned.
C28_LoginIgnoresCase ==
    [][ctx'.op = "login" =>
          \A body \in LoginBodies :
              (/\ ~Missing(body.email) /\ ~Missing(body.password)
               /\ Holder(body) # {}
               /\ Login(body))
              => /\ res'.status = 200
                 /\ res'.body.success
                 /\ \A u \in Holder(body) :
                        /\ res'.body.token.userId = u.id
                        /\ RegisteredIds(u.email) = {u.id}]_vars

\* the second user logged in typing the address in upper case
C28_Witness ==
    /\ ctx.op = "login"
    /\ ctx.email = Str(<<"A", "@", "X">>)
    /\ res.status = 200
    /\ res.body.user.email = Str(<<"a", "@", "x">>)
    /\ res.body.token.userId = 2

(***************************************************************************)
(* MovieDetailScreen: the stars.                                           *)
(***************************************************************************)
screens == <<db, isInitialized, opened, created, home>>

\* the useEffect of the mount: loadExistingRating shows the stored rating
loadExistingRating(m, answers) ==
    LET existingRating == getRating(Num(m), answers)
    IN  /\ detail = NotMounted
        /\ Answer("getRating", Resolves(existingRating))
        /\ detail' = [detail EXCEPT !.tmdbId = m,
                                    !.userRating = IF existingRating # Null
                                                   THEN existingRating.rating.v ELSE 0]

\* navigation.goBack, between two presses
goBack ==
    /\ detail # NotMounted
    /\ detail.saveRating = "none"
    /\ detail' = NotMounted
    /\ UNCHANGED <<server, local_tables, secure_store, inserted, calls, ret>>

\* what the promise awaited by handleStarPress is after a step of the call
\* in slot s
Awaited(s) ==
    IF detail.saveRating = "pending" /\ calls'[s] = NoCall THEN ret'.outcome
    ELSE detail.saveRating

\* a star that is not disabled is pressed: setIsSavingRating(true), and
\* saveRating is called and awaited
onPress(star) ==
    /\ detail # NotMounted
    /\ ~detail.isSavingRating
    /\ handleStarPress(detail.tmdbId, star)
    /\ detail' = [detail EXCEPT !.isSavingRating = TRUE, !.star = star,
                                !.saveRating = IF calls'[1] = NoCall
                                               THEN ret'.outcome ELSE "pending"]

\* a rating shown whatever became of saveRating
userRatingOptimistic(outcome, star, userRating) == star

\* setUserRating(star) is in the try block, after the await
setUserRating(outcome, star, userRating) ==
    IF outcome = "resolved" THEN star ELSE userRating

\* handleStarPress resumes after the await: try or catch, then finally
handleStarPressResumes ==
    /\ detail.saveRating \in {"resolved", "rejected"}
    /\ detail' = [detail EXCEPT
                     !.userRating = setUserRating(detail.saveRating, detail.star, @),
                     !.isSavingRating = FALSE,
                     !.saveRating = "none"]
    /\ UNCHANGED <<server, local_tables, secure_store, inserted, calls, ret>>

DoLoadExistingRating ==
    (\E m \in RatedMovieIds, answers \in BOOLEAN : loadExistingRating(m, answers))
    /\ UNCHANGED screens
DoGoBack == goBack /\ UNCHANGED screens
DoOnPress == (\E star \in {2, maxStars} : onPress(star)) /\ UNCHANGED screens
DoAwaitedLocal ==
    (\E s \in Slots : saveRatingLocal(s) /\ detail' = [detail EXCEPT !.saveRating = Awaited(s)])
    /\ UNCHANGED screens
DoAwaitedToken ==
    (\E s \in Slots : saveRatingToken(s) /\ detail' = [detail EXCEPT !.saveRating = Awaited(s)])
    /\ UNCHANGED screens
DoAwaitedFetch ==
    (\E s \in Slots : saveRatingFetch(s) /\ detail' = [detail EXCEPT !.saveRating = Awaited(s)])
    /\ UNCHANGED screens
DoHandleStarPressResumes == handleStarPressResumes /\ UNCHANGED screens

\* the detail screen of a client that logs in and out
NextDetail ==
    \/ DoCreateAccount
    \/ DoRegisterResume
    \/ DoSignIn
    \/ DoLogout
    \/ DoLoadExistingRating
    \/ DoGoBack
    \/ DoOnPress
    \/ DoAwaitedLocal
    \/ DoAwaitedToken
    \/ DoAwaitedFetch
    \/ DoHandleStarPressResumes

\* every await of saveRating settles, and the handler then resumes
SpecDetail ==
    /\ Init
    /\ [][NextDetail]_vars
    /\ WF_vars(DoAwaitedLocal)
    /\ WF_vars(DoAwaitedToken)
    /\ WF_vars(DoAwaitedFetch)
    /\ WF_vars(DoHandleStarPressResumes)

FailedToLoad == Str(<<"Failed to load movies. Please try again.">>)

Fetching == home.awaited # NotFetching

\* fetchAllData up to the await: the flag of the caller, setError(null), and
\* the three calls of Promise.all
fetchAllData(showRefresh) ==
    /\ ~Fetching
    /\ home' = [home EXCEPT !.isLoading = IF showRefresh THEN @ ELSE TRUE,
                            !.isRefreshing = IF showRefresh THEN TRUE ELSE @,
                            !.error = Null,
                            !.awaited = [fn \in HomeFunctions |-> "pending"]]
    /\ UNCHANGED <<server, local_tables, secure_store, inserted, calls, ret>>

\* the useEffect of the mount
mount == home = NotLoaded /\ fetchAllData(FALSE)

\* the list is pulled down: it is rendered when nothing is loading and
\* there is no error
handleRefresh ==
    /\ ~home.isLoading /\ ~home.isRefreshing /\ home.error = Null
    /\ fetchAllData(TRUE)

\* the button of the error view
retry == ~home.isLoading /\ home.error # Null /\ fetchAllData(FALSE)

\* one of the three calls settles with `result`
Settles(fn, result) ==
    /\ home.awaited[fn] = "pending"
    /\ home' = [home EXCEPT !.awaited[fn] = result.outcome]
    /\ Settle(fn, result.outcome, result.value)
    /\ UNCHANGED <<server, local_tables, secure_store, inserted, calls>>

\* Promise.all settles: rejected with the first rejection, resolved when
\* all three resolved; then the try or the catch, and the finally
fetchAllDataResumes ==
    LET rejected == \E fn \in HomeFunctions : home.awaited[fn] = "rejected"
        resolved == \A fn \in HomeFunctions : home.awaited[fn] = "resolved"
    IN  /\ rejected \/ resolved
        /\ home' = [isLoading |-> FALSE, isRefreshing |-> FALSE,
                    error |-> IF rejected THEN FailedToLoad ELSE home.error,
                    awaited |-> NotFetching]
        /\ UNCHANGED <<server, local_tables, secure_store, inserted, calls, ret>>

others == <<db, isInitialized, opened, created, detail>>

\* whatever calls fetchAllData: the mount, a pull of the list, the retry button
DoFetchAllData == (mount \/ handleRefresh \/ retry) /\ UNCHANGED others
DoTrendingSettles ==
    (\E response \in Outcomes(TMDBTrending) :
        Settles("getTrendingMovies", getTrendingMovies(response)))
    /\ UNCHANGED others
DoRecommendationsSettles ==
    (\E answers \in BOOLEAN, trending, trendingAgain \in Requests(TMDBTrending) :
        \E details \in Requests(TMDBMovie(Requested(answers))),
           recs \in Requests(TMDBRecommendations(Requested(answers))) :
            Settles("getRecommendations",
                    getRecommendations(answers, details, recs, trending, trendingAgain)))
    /\ UNCHANGED others
DoNowPlayingSettles ==
    (\E response \in Outcomes(TMDBNowPlaying) :
        Settles("getNowPlayingMovies", getNowPlayingMovies(response)))
    /\ UNCHANGED others
DoFetchAllDataResumes == fetchAllDataResumes /\ UNCHANGED others

\* the home screen of a client that rates movies while logged out
NextHome ==
    \/ DoRate
    \/ DoSaveRatingLocal
    \/ DoSaveRatingToken
    \/ DoFetchAllData
    \/ DoTrendingSettles
    \/ DoRecommendationsSettles
    \/ DoNowPlayingSettles
    \/ DoFetchAllDataResumes

\* every request of the catalog service settles, and fetchAllData then resumes
SpecHome ==
    /\ Init
    /\ [][NextHome]_vars
    /\ WF_vars(DoTrendingSettles)
    /\ WF_vars(DoRecommendationsSettles)
    /\ WF_vars(DoNowPlayingSettles)
    /\ WF_vars(DoFetchAllDataResumes)

\* C30: the three functions fetchAllData awaits never reject, the error
\* message of the home screen is never set, and every fetchAllData in progress
\* leads to isLoading and isRefreshing both false.
C30_NoErrorState ==
    /\ [](home.error = Null)
    /\ [][ret' # ret /\ ret'.fn \in HomeFunctions => ret'.outcome = "resolved"]_vars
    /\ [][Fetching /\ ~Fetching' => ~home'.isLoading /\ ~home'.isRefreshing]_vars
    /\ (Fetching ~> (~Fetching /\ ~home.isLoading /\ ~home.isRefreshing))

\* a refresh is over whose now-playing request failed: no error is shown,
\* nothing is loading, and the fallen-back list is empty
C30_Witness ==
    /\ ~Fetching
    /\ ~home.isLoading
    /\ ~home.isRefreshing
    /\ home.error = Null
    /\ ret.fn = "getNowPlayingMovies"
    /\ ret.value = Array(<<>>)
    /\ \E r \in local_ratings : r.rating.v >= HighRating

====
